---- MODULE Spec2Model ----
(***************************************************************************)
(* A model of the action-first planning pipeline of the assistant backend: *)
(* TaskPlanner.execute_plan (backend/automation/task_planner.py) and the   *)
(* part of the session handler (backend/websocket_manager.py) that turns   *)
(* its return value into the `response` message; the recovery of the plan  *)
(* object from the Generation engine's text (TaskPlanner._generate_plan);  *)
(* and the per-connection session of WebSocketManager with its audio       *)
(* buffers (backend/websocket_manager.py, backend/main.py); one session    *)
(* turn by turn, with its engine selection and outbound messages; the      *)
(* event loop shared by the sessions and the metrics broadcast; the        *)
(* Reference Resolver (TaskPlanner._resolve_references); the voice path    *)
(* and the text path side by side on one utterance; and the block-wise     *)
(* streaming of EdgeTTSStreamer.stream_text (backend/tts).                 *)
(***************************************************************************)
EXTENDS Integers, Sequences, FiniteSets, TLC

\* Longest plan the Generation engine is allowed to produce in the model.
MaxSteps == 3

\* Messages the clients send in all, over every connection.
MaxMsgs == 4

\* Messages a client can have sent ahead of the session's reading.
MaxPending == 2

\* Inputs (stop signals and text messages) of the session followed turn by
\* turn.
MaxTurns == 2

\* Rounds of the metrics broadcast.
MaxRounds == 2

\* Chunks the speech engine produces for one text at most, and how many of
\* them are no audio.
MaxChunks == 34
MaxOther == 2

\* Connection ids (str(id(websocket))).
Conns == {"ws1", "ws2"}

VARIABLES
    pc,         \* position of the session's task inside the pipeline
    mode,       \* "voice" (process_audio_buffer) or "text" (text_input branch)
    plan,       \* the dict returned by _generate_plan: [steps, error]
    i,          \* index of the step the execution loop is at (1-based)
    results,    \* the `results` list of execute_plan (retained messages)
    lastRes,    \* outcome of the most recent tool call (`res`, or the exception)
    retval,     \* what execute_plan returned
    ctx0,       \* the Context Store as it was when the utterance arrived
    ctx,        \* the Context Store (process-wide key/value snapshot)
    log,        \* history: Safety Gate checks and tool calls, in order
    sent,       \* outbound messages of the session, in order
    planCalls,  \* calls of the Generation engine made by _generate_plan
    chatCalls,  \* conversational calls of the Generation engine
    planFault   \* how planning went wrong: "none", "engine", "unparseable", "shape"

\* Plan recovery on its own (RecoverySpec)
VARIABLES
    gpc,            \* position inside _generate_plan / the head of execute_plan
    response_text,  \* what the Generation engine answered
    embedded,       \* the JSON object the engine put into its answer ("" if none)
    recovered,      \* what _generate_plan returned
    planHead        \* what execute_plan did with it before the execution loop

\* The connections and their sessions (SessionSpec)
VARIABLES
    active_connections, \* WebSocketManager.active_connections
    audio_buffer,       \* connection id -> fragments buffered, in order
    session_headers,    \* connection id -> captured header fragment
    buffer_start_time,  \* connection id -> when its buffer was created
    is_recording,       \* connection id -> recording flag
    lifecycle,          \* where each connection's endpoint coroutine is
    inbox,              \* messages sent by the client and not yet received
    arrivals,           \* messages sent so far, over all connections
    sentOn,             \* messages sent so far on each connection
    handled,            \* history: arrival numbers of the messages handled
    lastType,           \* history: type of the message handled last
    replies,            \* what the session sent while handling the last message
    batch,              \* history: fragments handled since the last drain
    units,              \* history: the audio unit assembled last, the fragments
                        \* it was made of, and the first container-opening
                        \* fragment the session had handled by then
    draining,           \* process_audio_buffer operations in flight
    closeCause,         \* why the session ended ("" while it runs)
    firstFragment,      \* history: the first fragment handled
    firstMagic          \* history: the first container-opening fragment handled

\* One session, turn by turn (TurnSpec)
VARIABLES
    tpc,              \* position of the session's task
    env_eleven_key,   \* ELEVENLABS_API_KEY as the environment has it now
    env_groq_key,     \* GROQ_API_KEY as the environment has it now
    fresh_eleven_key, \* the ElevenLabs key read at the head of the session
    fresh_groq_key,   \* the Groq key read at the head of the session
    tts_streamer,     \* the bound Synthesis engine
    active_llm,       \* the bound Generation engine
    raisedAt,         \* history: the primary engines whose construction raised
    announced,        \* the messages sent during engine selection
    turnMode,         \* "voice" (stop signal) or "text" (text message)
    accepted,         \* history: the input of the current turn
    turns,            \* inputs handled so far
    outbound,            \* outbound messages of the current turn, in order
    sttCalls,         \* calls of the Transcription engine in the current turn
    transcript,       \* history: what the Transcription engine returned
    plannerRuns,      \* calls of execute_plan in the current turn
    genCalls,         \* conversational Generation calls in the current turn
    ttsCalls,         \* calls of the Synthesis engine in the current turn
    fault             \* history: the failure met in the current turn

\* The event loop, the sessions' tasks and the metrics broadcast (LoopSpec)
VARIABLES
    running,      \* the task that holds the event loop's thread inside a
                  \* synchronous call ("none": the loop is free to schedule)
    stage,        \* where each connection's task is
    bpc,          \* where the broadcast task is
    round,        \* rounds of the broadcast completed
    targets,      \* the connections of the current round still to be sent to
    connections,  \* WebSocketManager.active_connections, in order
    tally         \* history: the current (or last) round

\* The Reference Resolver (ResolverSpec)
VARIABLES
    rpc,        \* how often the resolver has been applied
    user_prompt, \* the user's prompt
    context,    \* the Context Store snapshot passed in
    refined_prompt, \* _resolve_references(user_prompt, context)
    refined_again   \* _resolve_references(refined_prompt, context)

\* The voice path and the text path on one utterance (PathsSpec)
VARIABLES
    qpc,          \* which of the two paths have handled the utterance
    said,         \* the utterance: the transcript, or the text message
    plan_result,  \* what execute_plan gives when called ("": it raises)
    chat_reply,   \* what generate_response gives when called ("": it raises)
    voicePath,    \* the calls made and the response sent by process_audio_buffer
    textPath      \* the calls made and the response sent by the text_input branch

\* EdgeTTSStreamer.stream_text (StreamSpec)
VARIABLES
    spc,          \* where the generator is
    tts_text,     \* the text to speak
    engineChunks, \* the chunks communicate.stream() has produced, in order
    chunk_buffer, \* the local list of audio data not yet yielded
    yielded,      \* the blocks the generator has yielded, in order
    streamEnd     \* how the stream ended ("" while it runs)

plannerVars ==
    <<pc, mode, plan, i, results, lastRes, retval, ctx0, ctx, log, sent,
      planCalls, chatCalls, planFault>>
recoveryVars == <<gpc, response_text, embedded, recovered, planHead>>
sessionVars ==
    <<active_connections, audio_buffer, session_headers, buffer_start_time,
      is_recording, lifecycle, inbox, arrivals, sentOn, handled, lastType, replies, batch,
      units, draining, closeCause, firstFragment, firstMagic>>

turnVars ==
    <<tpc, env_eleven_key, env_groq_key, fresh_eleven_key, fresh_groq_key,
      tts_streamer, active_llm, raisedAt, announced, turnMode, accepted, turns,
      outbound, sttCalls, transcript, plannerRuns, genCalls, ttsCalls, fault>>
loopVars == <<running, stage, bpc, round, targets, connections, tally>>
resolverVars == <<rpc, user_prompt, context, refined_prompt, refined_again>>
pathVars == <<qpc, said, plan_result, chat_reply, voicePath, textPath>>
streamVars == <<spc, tts_text, engineChunks, chunk_buffer, yielded, streamEnd>>
laterVars == <<pathVars, streamVars>>
otherVars == <<turnVars, loopVars, resolverVars, laterVars>>

vars == <<plannerVars, recoveryVars, sessionVars, otherVars>>

---------------------------------------------------------------------------
(* Python strings and values                                               *)

\* `t in s` for strings
Contains(s, t) ==
    \E k \in 1..(Len(s) - Len(t) + 1) : SubSeq(s, k, k + Len(t) - 1) = t

\* s.replace(old, "")
RECURSIVE StrRemove(_, _)
StrRemove(s, old) ==
    IF Len(s) < Len(old) THEN s
    ELSE IF SubSeq(s, 1, Len(old)) = old
         THEN StrRemove(SubSeq(s, Len(old) + 1, Len(s)), old)
         ELSE SubSeq(s, 1, 1) \o StrRemove(SubSeq(s, 2, Len(s)), old)

\* sep.join(xs)
RECURSIVE Join(_, _)
Join(sep, xs) ==
    IF Len(xs) = 0 THEN ""
    ELSE IF Len(xs) = 1 THEN xs[1]
    ELSE xs[1] \o sep \o Join(sep, Tail(xs))

\* Scalars a tool can return (or put in a tuple): bool, str, None/dict.
PyBool(b) == [t |-> "bool", b |-> b, s |-> ""]
PyString(s) == [t |-> "str", b |-> FALSE, s |-> s]
PyOther == [t |-> "other", b |-> FALSE, s |-> ""]

\* str(x)
PyStr(x) ==
    IF x.t = "str" THEN x.s
    ELSE IF x.t = "bool" THEN (IF x.b THEN "True" ELSE "False")
    ELSE "None"

\* A returned value: a tuple of scalars, or one bare scalar.
Tuple(items) == [raised |-> FALSE, err |-> "", tuple |-> TRUE, items |-> items]
Bare(x) == [raised |-> FALSE, err |-> "", tuple |-> FALSE, items |-> <<x>>]
Raise(e) == [raised |-> TRUE, err |-> e, tuple |-> FALSE, items |-> <<PyOther>>]
NoRes == Bare(PyOther)

---------------------------------------------------------------------------
(* The planner object and its tools                                        *)

\* Attributes set by TaskPlanner.__init__, by name, with the object each holds.
\* (The planner's own methods are attributes too; none is named by a plan of
\* the model.)
PlannerAttrs ==
    [llm |-> "GroqLLM", system |-> "SystemControl", files |-> "FileManager",
     browser |-> "BrowserAgent", input |-> "InputController",
     safety |-> "SafetyGuard", ctx |-> "ContextManager"]

None == "None"

\* getattr(self, name, None) on the planner
GetPlannerAttr(name) ==
    IF name \in DOMAIN PlannerAttrs THEN PlannerAttrs[name] ELSE None

\* The Tool Capabilities: the objects a plan is meant to reach.
Capabilities == {"SystemControl", "FileManager", "BrowserAgent", "InputController"}

\* The names the planner's instruction prompt and _run_tool's table give them.
KnownTools == {"system_control", "file_manager", "browser_agent", "input_controller"}

\* Callable attributes of each object, as far as the plans of the model name
\* them: getattr(tool_instance, action, None) finds these and nothing else.
MethodsOf(obj) ==
    CASE obj = "SystemControl" -> {"launch_app", "close_app"}
      [] obj = "FileManager" -> {"write_file"}
      [] obj = "BrowserAgent" -> {"open_url"}
      [] obj = "InputController" -> {"type_text"}
      [] obj = "ContextManager" -> {"get_context", "update_context"}
      [] obj = "SafetyGuard" -> {"validate_action"}
      [] obj = "GroqLLM" -> {"generate_response", "clear_context"}
      [] OTHER -> {}

\* _run_tool up to the call: the object the tool name resolves to (None when
\* it resolves to nothing).
ResolveTool(tool_name) ==
    LET tool_instance ==
            GetPlannerAttr(StrRemove(StrRemove(tool_name, "_agent"), "_controller"))
    IN  IF tool_name = "system_control" THEN PlannerAttrs.system
        ELSE IF tool_name = "file_manager" THEN PlannerAttrs.files
        ELSE IF tool_name = "browser_agent" THEN PlannerAttrs.browser
        ELSE IF tool_name = "input_controller" THEN PlannerAttrs.input
        ELSE tool_instance

\* _run_tool up to the call: the exception it raises before calling anything,
\* or "" when it reaches method(**params).
DispatchError(tool_name, action) ==
    IF ResolveTool(tool_name) = None THEN "Unknown tool: " \o tool_name
    ELSE IF action \notin MethodsOf(ResolveTool(tool_name))
         THEN "Unknown action: " \o action \o " in " \o tool_name
         ELSE ""

---------------------------------------------------------------------------
(* _generate_plan: recovery of the plan object from the engine's text      *)

\* s[p:p+1] and s[a-1:b] with Python's tolerance for indices out of range
Ch(s, p) == IF p \in 1..Len(s) THEN SubSeq(s, p, p) ELSE ""
Slice(s, a, b) ==
    IF a > b \/ a > Len(s) THEN ""
    ELSE SubSeq(s, IF a < 1 THEN 1 ELSE a, IF b > Len(s) THEN Len(s) ELSE b)

\* s.find(c) and s.rfind(c) for one character, 1-based; 0 when absent
Find(s, c) ==
    IF \E p \in 1..Len(s) : Ch(s, p) = c
    THEN CHOOSE p \in 1..Len(s) : Ch(s, p) = c /\ \A q \in 1..(p - 1) : Ch(s, q) # c
    ELSE 0
RFind(s, c) ==
    IF \E p \in 1..Len(s) : Ch(s, p) = c
    THEN CHOOSE p \in 1..Len(s) : Ch(s, p) = c /\ \A q \in (p + 1)..Len(s) : Ch(s, q) # c
    ELSE 0

\* s.strip()
Strip(s) ==
    LET inked == {p \in 1..Len(s) : Ch(s, p) # " "}
    IN  IF inked = {} THEN ""
        ELSE SubSeq(s, CHOOSE p \in inked : \A q \in inked : p <= q,
                       CHOOSE p \in inked : \A q \in inked : q <= p)

\* What json.loads makes of a text, as far as execute_plan looks at it: the
\* type of the value, its truth value, its text without insignificant
\* spaces, and for an object the value under the key "steps".
NoSteps == [has |-> FALSE, t |-> "", truthy |-> FALSE, dicts |-> FALSE, text |-> ""]
JsonFail ==
    [ok |-> FALSE, end |-> 0, t |-> "", truthy |-> FALSE, dicts |-> FALSE,
     text |-> "", steps |-> NoSteps]
JsonValue(end, t, truthy, dicts, text, steps) ==
    [ok |-> TRUE, end |-> end, t |-> t, truthy |-> truthy, dicts |-> dicts,
     text |-> text, steps |-> steps]

Digits == {"0", "1", "2", "3", "4", "5", "6", "7", "8", "9"}

RECURSIVE SkipSpaces(_, _)
SkipSpaces(s, p) == IF Ch(s, p) = " " THEN SkipSpaces(s, p + 1) ELSE p

RECURSIVE NumberEnd(_, _)
NumberEnd(s, p) == IF Ch(s, p) \in Digits THEN NumberEnd(s, p + 1) ELSE p

\* The closing quote of the string that opens at p (no escapes in the model).
RECURSIVE StringEnd(_, _)
StringEnd(s, p) ==
    IF p > Len(s) THEN 0
    ELSE IF Ch(s, p) = "\"" THEN p
    ELSE StringEnd(s, p + 1)

RECURSIVE JsonParse(_, _), JsonMembers(_, _, _, _), JsonElements(_, _, _, _, _)

\* The value that starts at or after position p.
JsonParse(s, p) ==
    LET q == SkipSpaces(s, p)
        c == Ch(s, q)
    IN  IF c = "{" THEN
            IF Ch(s, SkipSpaces(s, q + 1)) = "}"
            THEN JsonValue(SkipSpaces(s, q + 1) + 1, "dict", FALSE, FALSE, "{}", NoSteps)
            ELSE JsonMembers(s, q + 1, "{", NoSteps)
        ELSE IF c = "[" THEN
            IF Ch(s, SkipSpaces(s, q + 1)) = "]"
            THEN JsonValue(SkipSpaces(s, q + 1) + 1, "list", FALSE, TRUE, "[]", NoSteps)
            ELSE JsonElements(s, q + 1, "[", TRUE, NoSteps)
        ELSE IF c = "\"" THEN
            LET e == StringEnd(s, q + 1)
            IN  IF e = 0 THEN JsonFail
                ELSE JsonValue(e + 1, "str", e > q + 1, FALSE, SubSeq(s, q, e), NoSteps)
        ELSE IF c \in Digits THEN
            LET e == NumberEnd(s, q)
            IN  IF e > q + 1 /\ c = "0" THEN JsonFail
                ELSE JsonValue(e, "int", SubSeq(s, q, e - 1) # "0", FALSE,
                               SubSeq(s, q, e - 1), NoSteps)
        ELSE IF Slice(s, q, q + 3) = "null" THEN
            JsonValue(q + 4, "None", FALSE, FALSE, "null", NoSteps)
        ELSE IF Slice(s, q, q + 3) = "true" THEN
            JsonValue(q + 4, "bool", TRUE, FALSE, "true", NoSteps)
        ELSE IF Slice(s, q, q + 4) = "false" THEN
            JsonValue(q + 5, "bool", FALSE, FALSE, "false", NoSteps)
        ELSE JsonFail

\* The members of an object from position p on; acc is the text so far and
\* steps the value seen under "steps" (a later duplicate key wins).
JsonMembers(s, p, acc, steps) ==
    LET k == JsonParse(s, p)
        colon == SkipSpaces(s, k.end)
        v == JsonParse(s, colon + 1)
        next == SkipSpaces(s, v.end)
        text == acc \o k.text \o ":" \o v.text
        seen == IF k.text = "\"steps\""
                THEN [has |-> TRUE, t |-> v.t, truthy |-> v.truthy,
                      dicts |-> v.dicts, text |-> v.text]
                ELSE steps
    IN  IF ~k.ok \/ k.t # "str" \/ Ch(s, colon) # ":" THEN JsonFail
        ELSE IF ~v.ok THEN JsonFail
        ELSE IF Ch(s, next) = "," THEN JsonMembers(s, next + 1, text \o ",", seen)
        ELSE IF Ch(s, next) = "}"
             THEN JsonValue(next + 1, "dict", TRUE, FALSE, text \o "}", seen)
             ELSE JsonFail

\* The elements of an array from position p on; dicts tells whether every
\* element so far is an object.
JsonElements(s, p, acc, dicts, steps) ==
    LET v == JsonParse(s, p)
        next == SkipSpaces(s, v.end)
        text == acc \o v.text
        all == dicts /\ v.t = "dict"
    IN  IF ~v.ok THEN JsonFail
        ELSE IF Ch(s, next) = "," THEN JsonElements(s, next + 1, text \o ",", all, steps)
        ELSE IF Ch(s, next) = "]"
             THEN JsonValue(next + 1, "list", TRUE, all, text \o "]", steps)
             ELSE JsonFail

\* json.loads(s): the whole text must be one value.
JsonLoads(s) ==
    LET v == JsonParse(s, 1)
    IN  IF v.ok /\ SkipSpaces(s, v.end) = Len(s) + 1 THEN v ELSE JsonFail

\* "Robust JSON Extraction": the text handed to json.loads.
\* The code fence the engine may wrap its answer in. A string of this
\* module cannot hold a backquote, so the fence is written with tildes.
Fence == "~~~"

ExtractJson(answer) ==
    LET clean_text == Strip(StrRemove(StrRemove(answer, Fence \o "json"), Fence))
        start_idx == Find(clean_text, "{")
        end_idx == RFind(clean_text, "}")
    IN  IF start_idx # 0 /\ end_idx # 0
        THEN Slice(clean_text, start_idx, end_idx)
        ELSE clean_text

\* The plan _generate_plan returns when the engine call or the parse raises:
\* {"steps": [], "_error": True}.
ErrorSignal ==
    JsonValue(0, "dict", TRUE, FALSE, "{\"steps\":[],\"_error\":true}",
              [has |-> TRUE, t |-> "list", truthy |-> FALSE, dicts |-> TRUE, text |-> "[]"])

\* The try block of _generate_plan from the engine's answer on: the parsed
\* value whatever its type, or the error signal when json.loads raises.
RecoverPlan(text) ==
    LET v == JsonLoads(ExtractJson(text))
    IN  IF v.ok THEN [v EXCEPT !.end = 0] ELSE ErrorSignal

\* execute_plan between _generate_plan and the first Safety Check:
\* `if not plan or not plan.get("steps")` and the head of the for loop.
\* A value without .get, steps that cannot be iterated, or a step without
\* .get raise out of execute_plan.
PlanHead(p) ==
    IF ~p.truthy THEN "NO_ACTION_REQUIRED"
    ELSE IF p.t # "dict" THEN "raised"
    ELSE IF ~p.steps.has \/ ~p.steps.truthy THEN "NO_ACTION_REQUIRED"
    ELSE IF p.steps.t = "list" /\ p.steps.dicts THEN "loop"
    ELSE "raised"

---------------------------------------------------------------------------
(* Inputs of the model: what the engines, the Safety Gate and the tools    *)
(* can answer                                                              *)

\* Steps a generated plan can hold: two that name a tool of the table, one
\* with an action the tool does not have, one with a tool name that resolves
\* to nothing, one whose tool name is an attribute of the planner.
PlanSteps ==
    {[tool |-> "system_control", action |-> "launch_app"],
     [tool |-> "file_manager", action |-> "write_file"],
     [tool |-> "browser_agent", action |-> "no_such_action"],
     [tool |-> "bogus", action |-> "launch_app"],
     [tool |-> "llm", action |-> "clear_context"]}

RECURSIVE SeqsUpTo(_, _)
SeqsUpTo(S, n) ==
    IF n = 0 THEN {<<>>}
    ELSE LET shorter == SeqsUpTo(S, n - 1)
         IN  shorter \cup {Append(q, x) : q \in {r \in shorter : Len(r) = n - 1}, x \in S}

\* What _generate_plan can return: a plan of up to MaxSteps steps (the empty
\* one is the "no action" signal), or the empty plan tagged as an error.
PlanOutputs ==
    {[steps |-> q, error |-> FALSE] : q \in SeqsUpTo(PlanSteps, MaxSteps)}
        \cup {[steps |-> <<>>, error |-> TRUE]}

\* What SafetyGuard.validate_action can return: (is_safe, reason).
Verdicts ==
    {[ok |-> TRUE, reason |-> ""],
     [ok |-> FALSE, reason |-> "path outside allowed directories"],
     [ok |-> FALSE, reason |-> "blocked command"]}

\* What a tool method can do when called: return a bare bool, a 1-tuple, a
\* (flag, message) tuple, a plain string, something else, or raise.
ToolOutcomes ==
    {Bare(PyBool(TRUE)),
     Bare(PyOther),
     Bare(PyString("Launched notepad")),
     Bare(PyString("")),
     Tuple(<<PyBool(TRUE)>>),
     Tuple(<<PyBool(TRUE), PyString("Launched notepad")>>),
     Tuple(<<PyBool(TRUE), PyString("")>>),
     Tuple(<<PyBool(TRUE), PyString("Saved True.txt")>>),
     Tuple(<<PyBool(TRUE), PyBool(TRUE)>>),
     Tuple(<<PyBool(FALSE), PyString("No process found")>>),
     Raise("boom")}

\* Replies of the conversational Generation call ("" stands for a call that
\* raised).
ChatReplies == {"Hello there", ""}

\* The Context Store before the utterance: empty, or left by an earlier task.
\* "" is an unset field.
ContextSnapshots ==
    {[last_opened_app |-> "", last_task_summary |-> ""],
     [last_opened_app |-> "chrome", last_task_summary |-> "Done."]}

---------------------------------------------------------------------------
(* execute_plan                                                            *)

\* ContextManager.update_context: merge, leaving the other fields alone.
UpdateContext(c, upd) ==
    [k \in DOMAIN c |-> IF k \in DOMAIN upd THEN upd[k] ELSE c[k]]

\* "Intelligent Output Filtering": the message taken from a step's result.
MessageOf(res) ==
    IF res.tuple /\ Len(res.items) >= 2 THEN PyStr(res.items[2])
    ELSE IF ~res.tuple /\ res.items[1].t = "str" THEN res.items[1].s
    ELSE ""

\* "Only append meaningful messages"
Meaningful(msg) ==
    msg # "" /\ ~Contains(msg, "True") /\ ~Contains(msg, "False")

\* Variant of SafetyBlockMessage: a fixed sentence that drops the reason.
SafetyBlockGeneric(reason) == "I couldn't complete the task."

\* The string returned on a Safety Gate rejection.
SafetyBlockMessage(reason) == "I couldn't complete the task because: " \o reason

\* The string returned when _run_tool raised.
StepErrorMessage(action, e) == "Error executing step " \o action \o ": " \o e

\* Variant of Summarize: another connector.
SummarizeComma(rs) == IF rs = <<>> THEN "Done." ELSE Join(", ", rs)

\* "5. Summarize"
Summarize(rs) == IF rs = <<>> THEN "Done." ELSE Join(" and ", rs)

Event(ev, step, ok, info) == [ev |-> ev, step |-> step, ok |-> ok, info |-> info]

\* The recovery variables while the model follows something else.
RecoveryOff ==
    /\ gpc = "off"
    /\ response_text = ""
    /\ embedded = ""
    /\ recovered = JsonFail
    /\ planHead = ""

\* The session variables while the model follows something else.
SessionOff ==
    /\ active_connections = {}
    /\ audio_buffer = <<>>
    /\ session_headers = <<>>
    /\ buffer_start_time = <<>>
    /\ is_recording = <<>>
    /\ lifecycle = [c \in Conns |-> "off"]
    /\ inbox = [c \in Conns |-> <<>>]
    /\ arrivals = 0
    /\ sentOn = [c \in Conns |-> 0]
    /\ handled = [c \in Conns |-> <<>>]
    /\ lastType = [c \in Conns |-> ""]
    /\ replies = [c \in Conns |-> <<>>]
    /\ batch = [c \in Conns |-> <<>>]
    /\ units = [c \in Conns |-> [unit |-> "", fragments |-> <<>>, opening |-> ""]]
    /\ draining = [c \in Conns |-> 0]
    /\ closeCause = [c \in Conns |-> ""]
    /\ firstFragment = [c \in Conns |-> ""]
    /\ firstMagic = [c \in Conns |-> ""]

\* The turn variables while the model follows something else.
TurnOff ==
    /\ tpc = "off"
    /\ env_eleven_key = ""
    /\ env_groq_key = ""
    /\ fresh_eleven_key = ""
    /\ fresh_groq_key = ""
    /\ tts_streamer = "none"
    /\ active_llm = "none"
    /\ raisedAt = {}
    /\ announced = <<>>
    /\ turnMode = "none"
    /\ accepted = ""
    /\ turns = 0
    /\ outbound = <<>>
    /\ sttCalls = 0
    /\ transcript = ""
    /\ plannerRuns = 0
    /\ genCalls = 0
    /\ ttsCalls = 0
    /\ fault = "none"

NoRound == [snapshot |-> <<>>, collected |-> FALSE, sent |-> {}, failed |-> {}]

\* The event loop's variables while the model follows something else.
LoopOff ==
    /\ running = "none"
    /\ stage = [c \in Conns |-> "off"]
    /\ bpc = "off"
    /\ round = 0
    /\ targets = <<>>
    /\ connections = <<>>
    /\ tally = NoRound

\* The resolver's variables while the model follows something else.
ResolverOff ==
    /\ rpc = "off"
    /\ user_prompt = ""
    /\ context = <<>>
    /\ refined_prompt = ""
    /\ refined_again = ""

\* Nothing handled by either path.
NoPath == [calls |-> <<>>, response |-> ""]

\* The two paths' variables while the model follows something else.
PathsOff ==
    /\ qpc = "off"
    /\ said = ""
    /\ plan_result = ""
    /\ chat_reply = ""
    /\ voicePath = NoPath
    /\ textPath = NoPath

\* The streamer's variables while the model follows something else.
StreamOff ==
    /\ spc = "off"
    /\ tts_text = ""
    /\ engineChunks = <<>>
    /\ chunk_buffer = <<>>
    /\ yielded = <<>>
    /\ streamEnd = ""

LaterOff == PathsOff /\ StreamOff

OthersOff == TurnOff /\ LoopOff /\ ResolverOff /\ LaterOff

Init ==
    /\ pc = "idle"
    /\ mode = "none"
    /\ plan = [steps |-> <<>>, error |-> FALSE]
    /\ i = 0
    /\ results = <<>>
    /\ lastRes = NoRes
    /\ retval = ""
    /\ ctx0 \in ContextSnapshots
    /\ ctx = ctx0
    /\ log = <<>>
    /\ sent = <<>>
    /\ planCalls = 0
    /\ chatCalls = 0
    /\ planFault = "none"
    /\ RecoveryOff
    /\ SessionOff
    /\ OthersOff

\* A transcript or a text message arrives: status processing and the
\* user_message go out, then the planner is tried first. The voice path skips
\* the planner for the special commands (/start, /hello, /hi).
ReceiveInput ==
    /\ pc = "idle"
    /\ \E m \in {"voice", "text"}, special \in BOOLEAN :
        /\ mode' = m
        /\ pc' = IF m = "voice" /\ special THEN "chat" ELSE "planning"
    /\ sent' = <<[type |-> "status", content |-> "processing"],
                 [type |-> "user_message", content |-> "utterance"]>>
    /\ UNCHANGED <<plan, i, results, lastRes, retval, ctx0, ctx, log>>
    /\ UNCHANGED <<planCalls, chatCalls, planFault>>
    /\ UNCHANGED <<recoveryVars, sessionVars, otherVars>>

\* How an error plan came about: the engine call raised, or its answer could
\* not be parsed.
FaultsOf(p) == IF p.error THEN {"engine", "unparseable"} ELSE {"none"}

\* execute_plan up to the execution loop: the context is read, the plan is
\* generated by one call of the engine, and an empty plan returns the
\* no-action signal. A returned value execute_plan cannot use (PlanHead gives
\* "raised") raises to the session, whose except clause falls through to the
\* conversational reply.
GeneratePlan ==
    /\ pc = "planning"
    /\ planCalls' = planCalls + 1
    /\ \/ \E p \in PlanOutputs, f \in {"none", "engine", "unparseable"} :
            /\ f \in FaultsOf(p)
            /\ plan' = p
            /\ planFault' = f
            /\ IF p.steps = <<>>
               THEN /\ retval' = "NO_ACTION_REQUIRED"
                    /\ pc' = "returned"
                    /\ UNCHANGED i
               ELSE /\ i' = 1
                    /\ pc' = "loop"
                    /\ UNCHANGED retval
       \/ /\ planFault' = "shape"
          /\ pc' = "chat"
          /\ UNCHANGED <<plan, i, retval>>
    /\ UNCHANGED <<mode, results, lastRes, ctx0, ctx, log, sent, chatCalls>>
    /\ UNCHANGED <<recoveryVars, sessionVars, otherVars>>

\* Variants of Blocked: the test of is_safe inverted, and a loop that only
\* logs the Safety Block.
BlockedInverted(verdict) == verdict.ok
BlockedNever(verdict) == FALSE

\* Whether the loop returns on a verdict of the Safety Gate.
Blocked(verdict) == ~verdict.ok

\* Variant of SafetyCheck: `continue` in place of `return` on a Safety Block.
SafetyCheckContinue ==
    /\ pc = "loop"
    /\ i <= Len(plan.steps)
    /\ \E v \in Verdicts :
        /\ log' = Append(log, Event("validate", i, v.ok, v.reason))
        /\ IF Blocked(v)
           THEN /\ i' = i + 1
                /\ pc' = "loop"
           ELSE /\ pc' = "execute"
                /\ UNCHANGED i
    /\ UNCHANGED <<mode, plan, results, lastRes, retval, ctx0, ctx, sent>>
    /\ UNCHANGED <<planCalls, chatCalls, planFault>>
    /\ UNCHANGED <<recoveryVars, sessionVars, otherVars>>

\* The head of the loop body: the Safety Check of step i.
SafetyCheck ==
    /\ pc = "loop"
    /\ i <= Len(plan.steps)
    /\ \E v \in Verdicts :
        /\ log' = Append(log, Event("validate", i, v.ok, v.reason))
        /\ IF Blocked(v)
           THEN /\ retval' = SafetyBlockMessage(v.reason)
                /\ pc' = "returned"
           ELSE /\ pc' = "execute"
                /\ UNCHANGED retval
    /\ UNCHANGED <<mode, plan, i, results, lastRes, ctx0, ctx, sent>>
    /\ UNCHANGED <<planCalls, chatCalls, planFault>>
    /\ UNCHANGED <<recoveryVars, sessionVars, otherVars>>

\* What makes the loop body raise before its try block: the step is not an
\* object (step.get raises), or the call of the Safety Gate raises.
LoopRaises == {"step is not an object", "validate_action raised"}

\* Where an exception of execute_plan takes the session: the except clause of
\* the planner call logs it and leaves task_executed false, so the session
\* goes on to the conversational reply.
AfterLoopRaise(m) == "chat"

\* The head of the loop body raises at step i. Nothing in execute_plan catches
\* it: no summary is built and the Context Store is left as the earlier steps
\* made it.
StepRaises ==
    /\ pc = "loop"
    /\ i <= Len(plan.steps)
    /\ \E cause \in LoopRaises :
        log' = Append(log, Event("raise", i, FALSE, cause))
    /\ pc' = AfterLoopRaise(mode)
    /\ UNCHANGED <<mode, plan, i, results, lastRes, retval, ctx0, ctx, sent>>
    /\ UNCHANGED <<planCalls, chatCalls, planFault>>
    /\ UNCHANGED <<recoveryVars, sessionVars, otherVars>>

\* _run_tool up to the call of the method: an unresolved tool or action raises,
\* which the loop's except clause turns into the returned error string.
RunTool ==
    /\ pc = "execute"
    /\ LET step == plan.steps[i]
           e == DispatchError(step.tool, step.action)
       IN  IF e # ""
           THEN /\ lastRes' = Raise(e)
                /\ retval' = StepErrorMessage(step.action, e)
                /\ pc' = "returned"
                /\ UNCHANGED log
           ELSE /\ log' = Append(log, Event("call", i, TRUE, step.tool \o "." \o step.action))
                /\ pc' = "in_tool"
                /\ UNCHANGED <<lastRes, retval>>
    /\ UNCHANGED <<mode, plan, i, results, ctx0, ctx, sent>>
    /\ UNCHANGED <<planCalls, chatCalls, planFault>>
    /\ UNCHANGED <<recoveryVars, sessionVars, otherVars>>

\* What a call of the method leaves in the Context Store: launch_app records
\* the app it launched.
ToolEffect(c, obj, action, out) ==
    IF obj = "SystemControl" /\ action = "launch_app" /\ ~out.raised
       /\ out.tuple /\ out.items[1] = PyBool(TRUE)
    THEN UpdateContext(c, [last_opened_app |-> "notepad"])
    ELSE c

\* Variant of NextIndex: the loop skips a step.
NextIndexSkip(k) == k + 2

\* `for step in plan.get("steps", [])`: the step after step k.
NextIndex(k) == k + 1

\* Variant of ToolReturn: a result whose success flag is false ends the plan
\* with the step's message.
ToolReturnAbortsOnFailure ==
    /\ pc = "in_tool"
    /\ \E out \in ToolOutcomes :
        LET step == plan.steps[i]
            msg == MessageOf(out)
        IN  /\ lastRes' = out
            /\ log' = Append(log, Event("return", i, ~out.raised, ""))
            /\ ctx' = ToolEffect(ctx, ResolveTool(step.tool), step.action, out)
            /\ IF out.raised \/ (out.tuple /\ out.items[1] = PyBool(FALSE))
               THEN /\ retval' = IF out.raised THEN StepErrorMessage(step.action, out.err)
                                  ELSE msg
                    /\ pc' = "returned"
                    /\ UNCHANGED <<i, results>>
               ELSE /\ results' = IF Meaningful(msg) THEN Append(results, msg) ELSE results
                    /\ i' = NextIndex(i)
                    /\ pc' = "loop"
                    /\ UNCHANGED retval
    /\ UNCHANGED <<mode, plan, ctx0, sent>>
    /\ UNCHANGED <<planCalls, chatCalls, planFault>>
    /\ UNCHANGED <<recoveryVars, sessionVars, otherVars>>

\* The method returns or raises; the rest of the loop body filters its result.
ToolReturn ==
    /\ pc = "in_tool"
    /\ \E out \in ToolOutcomes :
        LET step == plan.steps[i]
            msg == MessageOf(out)
        IN  /\ lastRes' = out
            /\ log' = Append(log, Event("return", i, ~out.raised, ""))
            /\ ctx' = ToolEffect(ctx, ResolveTool(step.tool), step.action, out)
            /\ IF out.raised
               THEN /\ retval' = StepErrorMessage(step.action, out.err)
                    /\ pc' = "returned"
                    /\ UNCHANGED <<i, results>>
               ELSE /\ results' = IF Meaningful(msg) THEN Append(results, msg) ELSE results
                    /\ i' = NextIndex(i)
                    /\ pc' = "loop"
                    /\ UNCHANGED retval
    /\ UNCHANGED <<mode, plan, ctx0, sent>>
    /\ UNCHANGED <<planCalls, chatCalls, planFault>>
    /\ UNCHANGED <<recoveryVars, sessionVars, otherVars>>

\* After the last step: the summary is built, stored and returned.
Finish ==
    /\ pc = "loop"
    /\ i > Len(plan.steps)
    /\ LET summary == Summarize(results)
       IN  /\ ctx' = UpdateContext(ctx, [last_task_summary |-> summary])
           /\ retval' = summary
    /\ pc' = "returned"
    /\ UNCHANGED <<mode, plan, i, results, lastRes, ctx0, log, sent>>
    /\ UNCHANGED <<planCalls, chatCalls, planFault>>
    /\ UNCHANGED <<recoveryVars, sessionVars, otherVars>>

---------------------------------------------------------------------------
(* The session: from execute_plan's return value to the `response` message *)

\* Variant of TaskExecuted: whatever the planner returns is the reply.
TaskExecutedAlways(m, result) == TRUE

\* Whether the session takes the planner's return value as the reply
\* (task_executed / is_executed).
TaskExecuted(m, result) ==
    IF m = "voice" THEN result # "" /\ result # "NO_ACTION_REQUIRED"
    ELSE result # "NO_ACTION_REQUIRED" /\ result # ""

Response(content) == [type |-> "response", content |-> content]

\* execute_plan has returned: a task result is sent as the response; the
\* no-action signal falls through to the conversational reply.
UseTaskResult ==
    /\ pc = "returned"
    /\ IF TaskExecuted(mode, retval)
       THEN /\ sent' = Append(sent, Response(retval))
            /\ pc' = "responded"
       ELSE /\ pc' = "chat"
            /\ UNCHANGED sent
    /\ UNCHANGED <<mode, plan, i, results, lastRes, retval, ctx0, ctx, log>>
    /\ UNCHANGED <<planCalls, chatCalls, planFault>>
    /\ UNCHANGED <<recoveryVars, sessionVars, otherVars>>

\* The conversational fallback: one Generation call, whose reply (or, when the
\* call raises, a canned apology) is sent as the response.
ConversationalReply ==
    /\ pc = "chat"
    /\ \E r \in ChatReplies :
        sent' =
            IF r # "" THEN Append(sent, Response(r))
            ELSE IF mode = "voice"
            THEN Append(sent, Response("I'm sorry, I'm having trouble processing that right now."))
            ELSE sent \o <<Response("I'm sorry, I'm having trouble understanding that. Could you please rephrase?"),
                           [type |-> "error", content |-> "generation failed"]>>
    /\ pc' = "responded"
    /\ chatCalls' = chatCalls + 1
    /\ UNCHANGED <<mode, plan, i, results, lastRes, retval, ctx0, ctx, log>>
    /\ UNCHANGED <<planCalls, planFault>>
    /\ UNCHANGED <<recoveryVars, sessionVars, otherVars>>

Next ==
    \/ ReceiveInput
    \/ GeneratePlan
    \/ SafetyCheck
    \/ StepRaises
    \/ RunTool
    \/ ToolReturn
    \/ Finish
    \/ UseTaskResult
    \/ ConversationalReply

Spec == Init /\ [][Next]_vars

---------------------------------------------------------------------------
(* _generate_plan and the head of execute_plan on the engine's raw answers *)

\* JSON objects the engine can put into its answer: plans, objects that are
\* no plan, and plans whose string values hold a code fence.
PlanObjects ==
    {"{}",
     "{\"steps\":[]}",
     "{\"steps\": [ ]}",
     "{\"steps\":[{\"tool\":\"llm\"}]}",
     "{\"steps\": [{\"a\":{}}, {\"b\":[7]}]}",
     "{\"steps\":[{\"content\":\"~~~\"}]}",
     "{\"steps\":[{\"c\":\"~~~json 1~~~\"}]}",
     "{\"thought\":\"chat\"}",
     "{\"steps\":1}",
     "{\"steps\":[1]}",
     "{\"steps\":\"go\"}",
     "{\"steps\":null,\"n\":12}"}

\* Brace-free text around the object: prose and code-fence markers.
Prefixes == {"", " ", "Sure: ", "~~~json ", "~~~ ", "Plan ~~~json"}
Suffixes == {"", " ~~~", " Done", "~~~  "}

\* Answers that hold no such object.
BareAnswers ==
    {"", " ", "I cannot help", "~~~json~~~",
     "{\"steps\":[", "}{", "{}{}", "{\"steps\":[]} }", "{ {\"a\":1}", "x}", "{x",
     "{\"steps\":[],}", "{\"a\" 1}", "{\"a\":}", "{\"a\":01}",
     "42", "0", "007", "[1]", "[]", "[{\"a\":1}]", "[1,]",
     "\"hi\"", "\"\"", "\"abc", "null", "true", "false"}

\* The engine is called once: it raises, or answers with an object wrapped
\* in prose, or with something else.
CallEngine ==
    /\ gpc = "call"
    /\ \/ /\ gpc' = "failed"
          /\ UNCHANGED <<response_text, embedded>>
       \/ \E pre \in Prefixes, obj \in PlanObjects, post \in Suffixes :
            /\ response_text' = pre \o obj \o post
            /\ embedded' = obj
            /\ gpc' = "answered"
       \/ \E bare \in BareAnswers :
            /\ response_text' = bare
            /\ embedded' = ""
            /\ gpc' = "answered"
    /\ UNCHANGED <<recovered, planHead>>
    /\ UNCHANGED <<plannerVars, sessionVars, otherVars>>

\* The rest of _generate_plan: its return value.
ReturnPlan ==
    /\ gpc \in {"failed", "answered"}
    /\ recovered' = IF gpc = "failed" THEN ErrorSignal ELSE RecoverPlan(response_text)
    /\ gpc' = IF gpc = "failed" THEN "returned_failed" ELSE "returned"
    /\ UNCHANGED <<response_text, embedded, planHead>>
    /\ UNCHANGED <<plannerVars, sessionVars, otherVars>>

\* execute_plan takes the value up to the execution loop.
ValidatePlan ==
    /\ gpc \in {"returned_failed", "returned"}
    /\ planHead' = PlanHead(recovered)
    /\ gpc' = IF gpc = "returned_failed" THEN "validated_failed" ELSE "validated"
    /\ UNCHANGED <<response_text, embedded, recovered>>
    /\ UNCHANGED <<plannerVars, sessionVars, otherVars>>

\* The planner variables while the model follows something else.
PlannerOff ==
    /\ pc = "off"
    /\ mode = "none"
    /\ plan = [steps |-> <<>>, error |-> FALSE]
    /\ i = 0
    /\ results = <<>>
    /\ lastRes = NoRes
    /\ retval = ""
    /\ ctx0 = [last_opened_app |-> "", last_task_summary |-> ""]
    /\ ctx = ctx0
    /\ log = <<>>
    /\ sent = <<>>
    /\ planCalls = 0
    /\ chatCalls = 0
    /\ planFault = "none"

RecoveryInit ==
    /\ gpc = "call"
    /\ response_text = ""
    /\ embedded = ""
    /\ recovered = JsonFail
    /\ planHead = ""
    /\ PlannerOff
    /\ SessionOff
    /\ OthersOff

RecoveryNext ==
    \/ CallEngine
    \/ ReturnPlan
    \/ ValidatePlan

RecoverySpec == RecoveryInit /\ [][RecoveryNext]_vars

---------------------------------------------------------------------------
(* WebSocketManager: connections, their sessions and their audio buffers   *)

\* b'\x1a\x45\xdf\xa3', the container magic, in the letters the header
\* identifier stands for.
Magic == "EBML"

\* Decoded audio fragments a client can send: two that open a container and
\* one that continues one.
Fragments == {"EBML-h", "EBML-k", "a"}

\* audio_bytes.startswith(b'\x1a\x45\xdf\xa3')
StartsWithMagic(audio_bytes) ==
    Len(audio_bytes) >= Len(Magic) /\ SubSeq(audio_bytes, 1, Len(Magic)) = Magic

\* A payload as it travels: decodable text that stands for some bytes, or
\* something base64.b64decode raises on (a missing payload, broken padding).
Encoded(bytes) == [b64 |-> TRUE, bytes |-> bytes]
NoPayload == [b64 |-> FALSE, bytes |-> ""]

Envelope(type, payload) == [json |-> TRUE, type |-> type, payload |-> payload]

\* What a client can send: the message types the branches of the
\* loop name, and text that is no JSON. (A type no branch names falls
\* through the loop body and changes nothing.)
Inbound ==
    {Envelope("audio_chunk", Encoded(f)) : f \in Fragments}
        \cup {Envelope("audio_chunk", NoPayload),
              Envelope("stop_audio", NoPayload),
              Envelope("request_metrics", NoPayload),
              Envelope("text_input", Encoded("hello")),
              [json |-> FALSE, type |-> "", payload |-> NoPayload]}

\* Variant of Put: the value is stored under every key the dict has.
PutAll(d, k, v) == [x \in DOMAIN d \cup {k} |-> v]

\* Python dicts keyed by connection id.
Put(d, k, v) == [x \in DOMAIN d \cup {k} |-> IF x = k THEN v ELSE d[x]]
Del(d, k) == [x \in DOMAIN d \ {k} |-> d[x]]

\* Variant of Concat: the chunks are joined last first.
RECURSIVE ConcatReversed(_)
ConcatReversed(chunks) ==
    IF chunks = <<>> THEN "" ELSE ConcatReversed(Tail(chunks)) \o Head(chunks)

\* b''.join(chunks)
RECURSIVE Concat(_)
Concat(chunks) == IF chunks = <<>> THEN "" ELSE Head(chunks) \o Concat(Tail(chunks))

\* Variant of Ready: the loop takes the next message while a buffer is
\* still being processed.
ReadyWhileProcessing(c) == lifecycle[c] \in {"receiving", "processing"}

\* The loop of connection c is at `await websocket.receive_text()`.
Ready(c) == lifecycle[c] = "receiving"

\* The message receive_text returns next.
Incoming(c) == Head(inbox[c])

Receives(c, type) ==
    /\ Ready(c)
    /\ inbox[c] # <<>>
    /\ Incoming(c).json
    /\ Incoming(c).type = type

\* Bookkeeping of every handled message: the order of handling is recorded
\* (Mark), and the message leaves the transport (Dequeue).
Mark(c) == handled' = [handled EXCEPT ![c] = Append(@, Incoming(c).seq)]
Dequeue(c) ==
    /\ inbox' = [inbox EXCEPT ![c] = Tail(@)]
    /\ lastType' = [lastType EXCEPT ![c] = Incoming(c).type]
Take(c) == Mark(c) /\ Dequeue(c)

Status(s) == [type |-> "status", content |-> s]

\* Variant of Disconnect: the captured header is left behind.
DisconnectKeepHeader(c) ==
    /\ active_connections' = active_connections \ {c}
    /\ audio_buffer' = Del(audio_buffer, c)
    /\ buffer_start_time' = Del(buffer_start_time, c)
    /\ is_recording' = Del(is_recording, c)
    /\ UNCHANGED session_headers

\* WebSocketManager.disconnect
Disconnect(c) ==
    /\ active_connections' = active_connections \ {c}
    /\ audio_buffer' = Del(audio_buffer, c)
    /\ buffer_start_time' = Del(buffer_start_time, c)
    /\ is_recording' = Del(is_recording, c)
    /\ session_headers' = Del(session_headers, c)

\* No unit assembled yet.
NoUnit == [unit |-> "", fragments |-> <<>>, opening |-> ""]

\* The session of c ends: handle_voice_session's finally clause, or the
\* except clauses of websocket_endpoint, call disconnect. Nothing is sent
\* any more, what the client sent and nobody received is lost, and the
\* history of the session's audio is closed.
EndSession(c, cause) ==
    /\ lifecycle' = [lifecycle EXCEPT ![c] = "closed"]
    /\ closeCause' = [closeCause EXCEPT ![c] = cause]
    /\ inbox' = [inbox EXCEPT ![c] = <<>>]
    /\ replies' = [replies EXCEPT ![c] = <<>>]
    /\ lastType' = [lastType EXCEPT ![c] = ""]
    /\ batch' = [batch EXCEPT ![c] = <<>>]
    /\ units' = [units EXCEPT ![c] = NoUnit]
    /\ draining' = [draining EXCEPT ![c] = 0]
    /\ firstFragment' = [firstFragment EXCEPT ![c] = ""]
    /\ firstMagic' = [firstMagic EXCEPT ![c] = ""]
    /\ Disconnect(c)

\* websocket_endpoint: the connection is accepted and registered.
Connect(c) ==
    /\ lifecycle[c] = "new"
    /\ active_connections' = active_connections \cup {c}
    /\ lifecycle' = [lifecycle EXCEPT ![c] = "selecting"]
    /\ UNCHANGED <<audio_buffer, session_headers, buffer_start_time, is_recording>>
    /\ UNCHANGED <<inbox, arrivals, sentOn, handled, lastType, replies, batch, units,
                   draining, closeCause, firstFragment, firstMagic>>
    /\ UNCHANGED <<plannerVars, recoveryVars, otherVars>>

\* What a step of the session leaves alone when it changes none of the
\* manager's maps and the session goes on.
SessionGoesOn ==
    UNCHANGED <<active_connections, audio_buffer, session_headers,
                buffer_start_time, is_recording, lifecycle, closeCause>>
AudioHistoryKept == UNCHANGED <<batch, units, draining, firstFragment, firstMagic>>


\* handle_voice_session before its loop: keys are read and the speech and
\* language engines are chosen. What raises here reaches websocket_endpoint.
SelectEngines(c) ==
    /\ lifecycle[c] = "selecting"
    /\ \/ /\ lifecycle' = [lifecycle EXCEPT ![c] = "receiving"]
          /\ replies' = [replies EXCEPT ![c] = <<[type |-> "status_info", content |-> "engine"]>>]
          /\ UNCHANGED <<active_connections, audio_buffer, session_headers,
                         buffer_start_time, is_recording, closeCause, inbox, lastType>>
          /\ AudioHistoryKept
       \/ EndSession(c, "selection")
    /\ UNCHANGED <<arrivals, sentOn, handled>>
    /\ UNCHANGED <<plannerVars, recoveryVars, otherVars>>

\* The client sends a message on an open connection.
Arrive(c) ==
    /\ lifecycle[c] \in {"selecting", "receiving", "processing"}
    /\ arrivals < MaxMsgs
    /\ Len(inbox[c]) < MaxPending
    /\ \E m \in Inbound :
        inbox' = [inbox EXCEPT ![c] =
                    Append(@, [json |-> m.json, type |-> m.type, payload |-> m.payload,
                               seq |-> sentOn[c] + 1])]
    /\ sentOn' = [sentOn EXCEPT ![c] = @ + 1]
    /\ arrivals' = arrivals + 1
    /\ SessionGoesOn
    /\ AudioHistoryKept
    /\ UNCHANGED <<handled, lastType, replies>>
    /\ UNCHANGED <<plannerVars, recoveryVars, otherVars>>

\* json.loads(data) raises on text that is no JSON. The loop's try has its
\* except clause outside the `while`, so the loop ends and the finally
\* clause disconnects.
MalformedEnvelope(c) ==
    /\ Ready(c)
    /\ inbox[c] # <<>>
    /\ ~Incoming(c).json
    /\ Mark(c)
    /\ EndSession(c, "malformed")
    /\ UNCHANGED <<arrivals, sentOn>>
    /\ UNCHANGED <<plannerVars, recoveryVars, otherVars>>

\* Variant of CapturesHeader: every container-opening fragment replaces
\* the header.
CapturesEveryHeader(headers, ws_id, audio_bytes) == StartsWithMagic(audio_bytes)

\* `if ws_id not in self.session_headers and audio_bytes.startswith(...)`
CapturesHeader(headers, ws_id, audio_bytes) ==
    ws_id \notin DOMAIN headers /\ StartsWithMagic(audio_bytes)

\* The audio_chunk branch. The buffer and its companions are created on the
\* first chunk; a payload that does not decode raises out of the loop.
AudioChunk(c) ==
    /\ Receives(c, "audio_chunk")
    /\ Mark(c)
    /\ LET fresh == c \notin DOMAIN audio_buffer
           buffer == IF fresh THEN <<>> ELSE audio_buffer[c]
           payload == Incoming(c).payload
           audio_bytes == payload.bytes
       IN  IF ~payload.b64
           THEN EndSession(c, "decode")
           ELSE /\ Dequeue(c)
                /\ audio_buffer' = Put(audio_buffer, c, Append(buffer, audio_bytes))
                /\ buffer_start_time' =
                       IF fresh THEN Put(buffer_start_time, c, Incoming(c).seq)
                       ELSE buffer_start_time
                /\ is_recording' = IF fresh THEN Put(is_recording, c, TRUE) ELSE is_recording
                /\ session_headers' =
                       IF CapturesHeader(session_headers, c, audio_bytes)
                       THEN Put(session_headers, c, audio_bytes)
                       ELSE session_headers
                /\ replies' = [replies EXCEPT ![c] = <<[type |-> "audio_level", content |-> "level"]>>]
                /\ batch' = [batch EXCEPT ![c] = Append(@, audio_bytes)]
                /\ firstFragment' = [firstFragment EXCEPT ![c] = IF @ = "" THEN audio_bytes ELSE @]
                /\ firstMagic' = [firstMagic EXCEPT ![c] =
                                     IF @ = "" /\ StartsWithMagic(audio_bytes)
                                     THEN audio_bytes ELSE @]
                /\ UNCHANGED <<active_connections, lifecycle, closeCause, units, draining>>
    /\ UNCHANGED <<arrivals, sentOn>>
    /\ UNCHANGED <<plannerVars, recoveryVars, otherVars>>

\* Variant of Assemble: the header is never put in front.
AssembleBare(current_chunks, headers, ws_id) == Concat(current_chunks)

\* "Combine all audio chunks" / "Prepend WebM header if missing"
Assemble(current_chunks, headers, ws_id) ==
    IF current_chunks # <<>> /\ ~StartsWithMagic(current_chunks[1]) /\ ws_id \in DOMAIN headers
    THEN headers[ws_id] \o Concat(current_chunks)
    ELSE Concat(current_chunks)

\* Variant of Cleared: the buffer keeps what was read.
ClearedKeeps(current_chunks) == current_chunks

\* "Clear buffer"
Cleared(current_chunks) == <<>>

\* The stop_audio branch up to the first suspension point of
\* process_audio_buffer: nothing to do on a missing or empty buffer;
\* otherwise the chunks are read, combined and cleared.
StopAudio(c) ==
    /\ Receives(c, "stop_audio")
    /\ Take(c)
    /\ replies' = [replies EXCEPT ![c] = <<>>]
    /\ IF c \notin DOMAIN audio_buffer \/ audio_buffer[c] = <<>>
       THEN UNCHANGED <<audio_buffer, is_recording, lifecycle, batch, units, draining>>
       ELSE /\ units' = [units EXCEPT ![c] =
                            [unit |-> Assemble(audio_buffer[c], session_headers, c),
                             fragments |-> batch[c],
                             opening |-> firstMagic[c]]]
            /\ audio_buffer' = [audio_buffer EXCEPT ![c] = Cleared(@)]
            /\ is_recording' = Put(is_recording, c, FALSE)
            /\ batch' = [batch EXCEPT ![c] = <<>>]
            /\ draining' = [draining EXCEPT ![c] = @ + 1]
            /\ lifecycle' = [lifecycle EXCEPT ![c] = "processing"]
    /\ UNCHANGED <<active_connections, session_headers, buffer_start_time, closeCause>>
    /\ UNCHANGED <<arrivals, sentOn, firstFragment, firstMagic>>
    /\ UNCHANGED <<plannerVars, recoveryVars, otherVars>>

\* The rest of process_audio_buffer: transcoding, transcription, planning,
\* the reply and its synthesis. Speech gives a reply, a failure is caught
\* and reported; when the report cannot be sent either, the transport is
\* gone and the loop ends.
FinishProcessing(c) ==
    /\ lifecycle[c] = "processing"
    /\ \/ /\ \E out \in {"reply", "caught"} :
               replies' = [replies EXCEPT ![c] =
                   IF out = "reply"
                   THEN <<Status("processing"), [type |-> "user_message", content |-> "utterance"],
                          Response("reply"), Status("idle")>>
                   ELSE <<[type |-> "error", content |-> "An error occurred during transcription."],
                          Status("idle")>>]
          /\ lifecycle' = [lifecycle EXCEPT ![c] = "receiving"]
          /\ draining' = [draining EXCEPT ![c] = @ - 1]
          /\ UNCHANGED <<active_connections, audio_buffer, session_headers,
                         buffer_start_time, is_recording, closeCause, inbox, lastType>>
          /\ UNCHANGED <<batch, units, firstFragment, firstMagic>>
       \/ EndSession(c, "transport")
    /\ UNCHANGED <<arrivals, sentOn, handled>>
    /\ UNCHANGED <<plannerVars, recoveryVars, otherVars>>

\* The request_metrics branch: system_monitor.get_system_info() is called
\* outside any try of the loop body.
RequestMetrics(c) ==
    /\ Receives(c, "request_metrics")
    /\ Mark(c)
    /\ \/ /\ Dequeue(c)
          /\ replies' = [replies EXCEPT ![c] = <<[type |-> "system_metrics", content |-> "metrics"]>>]
          /\ SessionGoesOn
          /\ AudioHistoryKept
       \/ \E cause \in {"metrics", "transport"} : EndSession(c, cause)
    /\ UNCHANGED <<arrivals, sentOn>>
    /\ UNCHANGED <<plannerVars, recoveryVars, otherVars>>

\* The text_input branch: planner first, then the conversational reply; its
\* inner try reports a failure and goes on, unless the report cannot be
\* sent.
TextInput(c) ==
    /\ Receives(c, "text_input")
    /\ Mark(c)
    /\ \/ /\ Dequeue(c)
          /\ \E out \in {"reply", "caught"} :
               replies' = [replies EXCEPT ![c] =
                   <<Status("processing"), [type |-> "user_message", content |-> "utterance"]>>
                   \o (IF out = "reply" THEN <<Response("reply")>>
                       ELSE <<Response("I'm sorry, I'm having trouble understanding that. Could you please rephrase?"),
                              [type |-> "error", content |-> "generation failed"]>>)
                   \o <<Status("idle")>>]
          /\ SessionGoesOn
          /\ AudioHistoryKept
       \/ EndSession(c, "transport")
    /\ UNCHANGED <<arrivals, sentOn>>
    /\ UNCHANGED <<plannerVars, recoveryVars, otherVars>>

\* The client goes away: receive_text raises, the loop ends.
TransportLost(c) ==
    /\ Ready(c)
    /\ inbox[c] = <<>>
    /\ EndSession(c, "transport")
    /\ UNCHANGED <<arrivals, sentOn, handled>>
    /\ UNCHANGED <<plannerVars, recoveryVars, otherVars>>

SessionInit ==
    /\ active_connections = {}
    /\ audio_buffer = <<>>
    /\ session_headers = <<>>
    /\ buffer_start_time = <<>>
    /\ is_recording = <<>>
    /\ lifecycle = [c \in Conns |-> "new"]
    /\ inbox = [c \in Conns |-> <<>>]
    /\ arrivals = 0
    /\ sentOn = [c \in Conns |-> 0]
    /\ handled = [c \in Conns |-> <<>>]
    /\ lastType = [c \in Conns |-> ""]
    /\ replies = [c \in Conns |-> <<>>]
    /\ batch = [c \in Conns |-> <<>>]
    /\ units = [c \in Conns |-> NoUnit]
    /\ draining = [c \in Conns |-> 0]
    /\ closeCause = [c \in Conns |-> ""]
    /\ firstFragment = [c \in Conns |-> ""]
    /\ firstMagic = [c \in Conns |-> ""]
    /\ PlannerOff
    /\ RecoveryOff
    /\ OthersOff

SessionNext ==
    \E c \in Conns :
        \/ Connect(c)
        \/ SelectEngines(c)
        \/ Arrive(c)
        \/ MalformedEnvelope(c)
        \/ AudioChunk(c)
        \/ StopAudio(c)
        \/ FinishProcessing(c)
        \/ RequestMetrics(c)
        \/ TextInput(c)
        \/ TransportLost(c)

SessionSpec == SessionInit /\ [][SessionNext]_vars

---------------------------------------------------------------------------
(* One session, turn by turn: engine selection and the outbound messages   *)
(* of each input (handle_voice_session, process_audio_buffer)              *)
(* The transport is taken to stay up: every send succeeds.                 *)

\* s.startswith(prefix)
StartsWith(s, prefix) ==
    Len(s) >= Len(prefix) /\ SubSeq(s, 1, Len(prefix)) = prefix

\* Values of ELEVENLABS_API_KEY ("" is an unset variable): 10 and 11
\* characters long, a placeholder, and a well-formed key.
ElevenKeys == {"", "sk_1234567", "sk_12345678", "sk_placeholder_key"}

\* Values of GROQ_API_KEY ("" is an unset variable): 20 and 21 characters
\* long, and a placeholder.
GroqKeys == {"", "gsk_0123456789abcdef", "gsk_0123456789abcdefg",
             "sk_placeholder_0123456789"}

\* Variant of UsableElevenKey: the placeholder test left outbound.
UsableElevenKeyByLength(key) == key # "" /\ Len(key) > 10

\* The test of line 147 on the ElevenLabs key.
UsableElevenKey(key) ==
    key # "" /\ Len(key) > 10 /\ ~StartsWith(key, "sk_placeholder")

\* The test of line 168 on the Groq key.
UsableGroqKey(key) == key # "" /\ Len(key) > 20

StatusInfo(engine) == [type |-> "status_info", content |-> engine]
UserMessage(text) == [type |-> "user_message", content |-> text]
ErrorMessage(text) == [type |-> "error", content |-> text]
AudioLevel == [type |-> "audio_level", content |-> "level"]
TtsAudio == [type |-> "tts_audio", content |-> "audio"]

\* The counters and the history of a turn, as a new turn starts.
TurnStarts(m, input) ==
    /\ turnMode' = m
    /\ accepted' = input
    /\ turns' = turns + 1
    /\ sttCalls' = 0
    /\ transcript' = ""
    /\ plannerRuns' = 0
    /\ genCalls' = 0
    /\ ttsCalls' = 0
    /\ fault' = "none"

TurnGoesOn == UNCHANGED <<turnMode, accepted, turns>>
EnginesKept ==
    UNCHANGED <<env_eleven_key, env_groq_key, fresh_eleven_key, fresh_groq_key,
                tts_streamer, active_llm, raisedAt, announced>>

\* The head of handle_voice_session: the keys are read once, the Synthesis
\* engine is chosen and announced. ElevenLabsStreamer(...) may raise.
SelectSynthesis ==
    /\ tpc = "select_tts"
    /\ fresh_eleven_key' = env_eleven_key
    /\ fresh_groq_key' = env_groq_key
    /\ IF UsableElevenKey(env_eleven_key)
       THEN \/ /\ tts_streamer' = "ElevenLabs"
               /\ announced' = <<StatusInfo("ElevenLabs Premium")>>
               /\ UNCHANGED raisedAt
            \/ /\ tts_streamer' = "EdgeTTS"
               /\ announced' = <<StatusInfo("EdgeTTS (Emergency Fallback)")>>
               /\ raisedAt' = raisedAt \cup {"ElevenLabs"}
       ELSE /\ tts_streamer' = "EdgeTTS"
            /\ announced' = <<StatusInfo("EdgeTTS (Free)")>>
            /\ UNCHANGED raisedAt
    /\ tpc' = "select_llm"
    /\ UNCHANGED <<env_eleven_key, env_groq_key, active_llm>>
    /\ UNCHANGED <<turnMode, accepted, turns, outbound, sttCalls, transcript, plannerRuns, genCalls, ttsCalls, fault>>
    /\ UNCHANGED <<plannerVars, recoveryVars, sessionVars, loopVars, resolverVars, laterVars>>

\* The Generation engine is chosen from the key read at the head.
\* GroqLLM(...) may raise.
SelectGeneration ==
    /\ tpc = "select_llm"
    /\ IF UsableGroqKey(fresh_groq_key)
       THEN \/ /\ active_llm' = "Groq"
               /\ UNCHANGED raisedAt
            \/ /\ active_llm' = "Gemini"
               /\ raisedAt' = raisedAt \cup {"Groq"}
       ELSE /\ active_llm' = "Gemini"
            /\ UNCHANGED raisedAt
    /\ tpc' = "idle"
    /\ UNCHANGED <<env_eleven_key, env_groq_key, fresh_eleven_key, fresh_groq_key,
                   tts_streamer, announced>>
    /\ UNCHANGED <<turnMode, accepted, turns, outbound, sttCalls, transcript, plannerRuns, genCalls, ttsCalls, fault>>
    /\ UNCHANGED <<plannerVars, recoveryVars, sessionVars, loopVars, resolverVars, laterVars>>

\* The environment changes under the running session: a key is set, removed
\* or replaced.
KeysChange ==
    /\ tpc \in {"select_llm", "idle"}
    /\ \E e \in ElevenKeys, g \in GroqKeys :
        /\ <<e, g>> # <<env_eleven_key, env_groq_key>>
        /\ env_eleven_key' = e
        /\ env_groq_key' = g
    /\ UNCHANGED <<tpc, fresh_eleven_key, fresh_groq_key, tts_streamer, active_llm,
                   raisedAt, announced>>
    /\ UNCHANGED <<turnMode, accepted, turns, outbound, sttCalls, transcript, plannerRuns, genCalls, ttsCalls, fault>>
    /\ UNCHANGED <<plannerVars, recoveryVars, sessionVars, loopVars, resolverVars, laterVars>>

\* What process_audio_buffer sends when there is nothing to process
\* (lines 284-285).
NoSpeech(buffered) == <<>>

\* A stop signal. With no buffer, or an empty one, process_audio_buffer
\* returns at once; otherwise the unit goes to transcoding.
StopSignal ==
    /\ tpc = "idle"
    /\ turns < MaxTurns
    /\ \E buffered \in {"absent", "empty", "fragments"} :
        /\ TurnStarts("voice", "stop:" \o buffered)
        /\ IF buffered = "fragments"
           THEN /\ outbound' = <<>>
                /\ tpc' = "transcoding"
           ELSE /\ outbound' = NoSpeech(buffered)
                /\ tpc' = "idle"
    /\ EnginesKept
    /\ UNCHANGED <<plannerVars, recoveryVars, sessionVars, loopVars, resolverVars, laterVars>>

\* Variant of TranscriptionFailed: the error is reported and nothing more.
TranscriptionFailedSilent(http) == <<ErrorMessage("An error occurred during transcription.")>>

\* The two except clauses of process_audio_buffer: an error message, then
\* status idle.
TranscriptionFailed(http) ==
    <<ErrorMessage(IF http THEN "Transcription failed. Please try again."
                   ELSE "An error occurred during transcription."),
      Status("idle")>>

\* convert_webm_to_wav returns or raises.
Transcode ==
    /\ tpc = "transcoding"
    /\ \/ /\ tpc' = "transcribing"
          /\ UNCHANGED <<outbound, fault>>
       \/ /\ fault' = "transcoding"
          /\ outbound' = outbound \o TranscriptionFailed(FALSE)
          /\ tpc' = "idle"
    /\ TurnGoesOn
    /\ EnginesKept
    /\ UNCHANGED <<sttCalls, transcript, plannerRuns, genCalls, ttsCalls>>
    /\ UNCHANGED <<plannerVars, recoveryVars, sessionVars, loopVars, resolverVars, laterVars>>

\* What the Transcription engine hears.
Transcripts == {"", "  ", "open notepad", "/start"}

\* transcript.strip().lower() in ["/start", "/hello", "/hi"]
SpecialCommand(heard) == Strip(heard) \in {"/start", "/hello", "/hi"}

\* Variant of Heard: a transcript of blanks counts as speech.
HeardAnything(heard) == heard # ""

\* `if transcript and transcript.strip()`
Heard(heard) == heard # "" /\ Strip(heard) # ""

\* SpeechToText() is constructed (it raises without a Deepgram key) and
\* transcribe is called once. A transcript that holds speech is announced
\* and goes to the planner, or straight to the conversation for a special
\* command; an empty one ends the turn with status idle.
Transcribe ==
    /\ tpc = "transcribing"
    /\ \/ /\ fault' = "stt_init"
          /\ outbound' = outbound \o TranscriptionFailed(FALSE)
          /\ tpc' = "idle"
          /\ UNCHANGED <<sttCalls, transcript>>
       \/ /\ sttCalls' = sttCalls + 1
          /\ \/ \E http \in BOOLEAN :
                  /\ fault' = "transcription"
                  /\ outbound' = outbound \o TranscriptionFailed(http)
                  /\ tpc' = "idle"
                  /\ UNCHANGED transcript
             \/ \E heard \in Transcripts :
                  /\ transcript' = heard
                  /\ UNCHANGED fault
                  /\ IF Heard(heard)
                     THEN /\ outbound' = outbound \o <<Status("processing"), UserMessage(heard)>>
                          /\ tpc' = IF SpecialCommand(heard) THEN "chat" ELSE "planning"
                     ELSE /\ outbound' = outbound \o <<Status("idle")>>
                          /\ tpc' = "idle"
    /\ TurnGoesOn
    /\ EnginesKept
    /\ UNCHANGED <<plannerRuns, genCalls, ttsCalls>>
    /\ UNCHANGED <<plannerVars, recoveryVars, sessionVars, loopVars, resolverVars, laterVars>>

\* A text_input (or message) envelope: one without text is skipped, any
\* other is announced and goes to the planner.
TextMessage ==
    /\ tpc = "idle"
    /\ turns < MaxTurns
    /\ \E user_message \in {"", "open notepad"} :
        /\ TurnStarts("text", "text:" \o user_message)
        /\ IF user_message = ""
           THEN /\ outbound' = <<>>
                /\ tpc' = "idle"
           ELSE /\ outbound' = <<Status("processing"), UserMessage(user_message)>>
                /\ tpc' = "planning"
    /\ EnginesKept
    /\ UNCHANGED <<plannerVars, recoveryVars, sessionVars, loopVars, resolverVars, laterVars>>

\* What execute_plan gives the session: a task result, the no-action
\* signal, or an exception ("" here).
PlanResults == {"Done.", "NO_ACTION_REQUIRED", ""}

\* The planner is tried first. A task result is the reply; the no-action
\* signal and an exception fall through to the conversation.
RunPlanner ==
    /\ tpc = "planning"
    /\ plannerRuns' = plannerRuns + 1
    /\ \E result \in PlanResults :
        /\ fault' = IF result = "" THEN "planning" ELSE fault
        /\ IF TaskExecuted(turnMode, result)
           THEN /\ outbound' = Append(outbound, Response(result))
                /\ tpc' = "speaking"
           ELSE /\ tpc' = "chat"
                /\ UNCHANGED outbound
    /\ TurnGoesOn
    /\ EnginesKept
    /\ UNCHANGED <<sttCalls, transcript, genCalls, ttsCalls>>
    /\ UNCHANGED <<plannerVars, recoveryVars, sessionVars, loopVars, resolverVars, laterVars>>

\* The conversational Generation call. When it raises, the voice path sends
\* an apology as the reply and goes on to speak it; the text path's outer
\* handler sends an apology, the error and status idle.
Converse ==
    /\ tpc = "chat"
    /\ genCalls' = genCalls + 1
    /\ \E r \in ChatReplies :
        IF r # ""
        THEN /\ outbound' = Append(outbound, Response(r))
             /\ tpc' = "speaking"
             /\ UNCHANGED fault
        ELSE /\ fault' = "generation"
             /\ IF turnMode = "voice"
                THEN /\ outbound' = Append(outbound, Response("I'm sorry, I'm having trouble processing that right now."))
                     /\ tpc' = "speaking"
                ELSE /\ outbound' = outbound \o
                         <<Response("I'm sorry, I'm having trouble understanding that. Could you please rephrase?"),
                           ErrorMessage("generation failed"), Status("idle")>>
                     /\ tpc' = "idle"
    /\ TurnGoesOn
    /\ EnginesKept
    /\ UNCHANGED <<sttCalls, transcript, plannerRuns, ttsCalls>>
    /\ UNCHANGED <<plannerVars, recoveryVars, sessionVars, loopVars, resolverVars, laterVars>>

\* What is sent before the synthesis starts: the voice path sends status
\* speaking (line 404), the text path nothing (lines 590-592).
SpeakingNotice(m) == IF m = "voice" THEN <<Status("speaking")>> ELSE <<>>

\* Variant of SynthesisReport: a failed synthesis is reported by an apology
\* sent as a response (what the outer handler of the text path sends).
SynthesisReportApology(m) ==
    <<Response("I'm sorry, I'm having trouble understanding that. Could you please rephrase?")>>

\* What a failed synthesis leaves on the wire: an error message on the voice
\* path (lines 424-430), nothing on the text path (lines 605-606).
SynthesisReport(m) ==
    IF m = "voice" THEN <<ErrorMessage("synthesis failed")>> ELSE <<>>

\* Variant of EngineAfterFailure: a failed synthesis rebinds the fallback.
EngineAfterFailureFallback(engine) == "EdgeTTS"

\* The Synthesis engine after a synthesis that failed: the one bound at the
\* start (neither except clause assigns tts_streamer).
EngineAfterFailure(engine) == engine

Levels(n) == [k \in 1..n |-> AudioLevel]

\* The reply is synthesized by the bound engine: a level per chunk, then the
\* audio in one message if there was any; a failure part-way is caught.
\* Status idle ends the turn.
Synthesize ==
    /\ tpc = "speaking"
    /\ tts_streamer # "none"
    /\ ttsCalls' = ttsCalls + 1
    /\ \E chunks \in 0..2, failed \in BOOLEAN :
        /\ fault' = IF failed THEN "synthesis" ELSE fault
        /\ tts_streamer' = IF failed THEN EngineAfterFailure(tts_streamer) ELSE tts_streamer
        /\ outbound' = outbound \o SpeakingNotice(turnMode) \o Levels(chunks)
                      \o (IF failed THEN SynthesisReport(turnMode)
                          ELSE IF chunks > 0 THEN <<TtsAudio>> ELSE <<>>)
                      \o <<Status("idle")>>
    /\ tpc' = "idle"
    /\ TurnGoesOn
    /\ UNCHANGED <<env_eleven_key, env_groq_key, fresh_eleven_key, fresh_groq_key,
                   active_llm, raisedAt, announced>>
    /\ UNCHANGED <<sttCalls, transcript, plannerRuns, genCalls>>
    /\ UNCHANGED <<plannerVars, recoveryVars, sessionVars, loopVars, resolverVars, laterVars>>

TurnInit ==
    /\ tpc = "select_tts"
    /\ env_eleven_key \in ElevenKeys
    /\ env_groq_key \in GroqKeys
    /\ fresh_eleven_key = ""
    /\ fresh_groq_key = ""
    /\ tts_streamer = "none"
    /\ active_llm = "none"
    /\ raisedAt = {}
    /\ announced = <<>>
    /\ turnMode = "none"
    /\ accepted = ""
    /\ turns = 0
    /\ outbound = <<>>
    /\ sttCalls = 0
    /\ transcript = ""
    /\ plannerRuns = 0
    /\ genCalls = 0
    /\ ttsCalls = 0
    /\ fault = "none"
    /\ PlannerOff
    /\ RecoveryOff
    /\ SessionOff
    /\ LoopOff
    /\ ResolverOff
    /\ LaterOff

TurnNext ==
    \/ SelectSynthesis
    \/ SelectGeneration
    \/ KeysChange
    \/ StopSignal
    \/ Transcode
    \/ Transcribe
    \/ TextMessage
    \/ RunPlanner
    \/ Converse
    \/ Synthesize

TurnSpec == TurnInit /\ [][TurnNext]_vars

\* The external calls return: a turn that has started is carried on.
TurnFairness ==
    /\ WF_vars(Transcode)
    /\ WF_vars(Transcribe)
    /\ WF_vars(RunPlanner)
    /\ WF_vars(Converse)
    /\ WF_vars(Synthesize)

TurnLiveSpec == TurnSpec /\ TurnFairness

---------------------------------------------------------------------------
(* The event loop: one task per connection and the metrics broadcast       *)
(* (main.py startup_event, WebSocketManager.broadcast_metrics,             *)
(* TaskPlanner.execute_plan)                                               *)
(* The loop has one thread. A task runs from one await to the next; an     *)
(* awaited call (receive, send, asyncio.to_thread, asyncio.sleep) gives    *)
(* the thread back, a plain call keeps it until it returns.                *)

\* Whether the event loop can give its thread to task t.
CanStep(t) == running \in {"none", t}

\* The connections of a list, as a set.
Members(list) == {list[k] : k \in DOMAIN list}

\* list.remove(c)
Without(list, c) == SelectSeq(list, LAMBDA d : d # c)

\* websocket_endpoint: the connection is accepted and registered, and its
\* task waits for a message.
Accept(c) ==
    /\ stage[c] = "off"
    /\ CanStep(c)
    /\ stage' = [stage EXCEPT ![c] = "receive"]
    /\ connections' = Append(connections, c)
    /\ UNCHANGED <<running, bpc, round, targets, tally>>
    /\ UNCHANGED <<plannerVars, recoveryVars, sessionVars, turnVars, resolverVars, laterVars>>

\* A message has come in; the planner awaits the Generation engine, which
\* runs in a worker thread (asyncio.to_thread).
AwaitEngine(c) ==
    /\ stage[c] = "receive"
    /\ CanStep(c)
    /\ stage' = [stage EXCEPT ![c] = "engine"]
    /\ UNCHANGED <<running, bpc, round, targets, connections, tally>>
    /\ UNCHANGED <<plannerVars, recoveryVars, sessionVars, turnVars, resolverVars, laterVars>>

\* The plan is back and its step is run: _run_tool calls the tool's method
\* directly, on the loop's thread (task_planner.py line 78).
EnterTool(c) ==
    /\ stage[c] = "engine"
    /\ CanStep(c)
    /\ stage' = [stage EXCEPT ![c] = "tool"]
    /\ running' = c
    /\ UNCHANGED <<bpc, round, targets, connections, tally>>
    /\ UNCHANGED <<plannerVars, recoveryVars, sessionVars, turnVars, resolverVars, laterVars>>

\* The method returns or raises; execute_plan returns and the session awaits
\* the sending of its reply.
LeaveTool(c) ==
    /\ stage[c] = "tool"
    /\ running = c
    /\ stage' = [stage EXCEPT ![c] = "receive"]
    /\ running' = "none"
    /\ UNCHANGED <<bpc, round, targets, connections, tally>>
    /\ UNCHANGED <<plannerVars, recoveryVars, sessionVars, turnVars, resolverVars, laterVars>>

\* The session ends (its receive raised, or handling a message did): the
\* connection leaves the registry.
Drop(c) ==
    /\ stage[c] = "receive"
    /\ CanStep(c)
    /\ stage' = [stage EXCEPT ![c] = "closed"]
    /\ connections' = Without(connections, c)
    /\ UNCHANGED <<running, bpc, round, targets, tally>>
    /\ UNCHANGED <<plannerVars, recoveryVars, sessionVars, turnVars, resolverVars, laterVars>>

\* The broadcast task wakes from its sleep. With connections registered it
\* collects the metrics and takes a copy of the registry; when collecting
\* raises, the round is over. It then sleeps again.
Wake ==
    /\ bpc = "sleep"
    /\ CanStep("metrics")
    /\ round < MaxRounds
    /\ IF connections = <<>>
       THEN /\ round' = round + 1
            /\ tally' = NoRound
            /\ UNCHANGED <<bpc, targets>>
       ELSE \/ /\ tally' = [NoRound EXCEPT !.snapshot = connections, !.collected = TRUE]
               /\ targets' = connections
               /\ bpc' = "sending"
               /\ UNCHANGED round
            \/ /\ tally' = [NoRound EXCEPT !.snapshot = connections]
               /\ round' = round + 1
               /\ UNCHANGED <<bpc, targets>>
    /\ UNCHANGED <<running, stage, connections>>
    /\ UNCHANGED <<plannerVars, recoveryVars, sessionVars, turnVars, resolverVars, laterVars>>

\* The connections still to be sent to after a send has failed: the inner
\* try (lines 122-128) keeps the for loop going.
RestAfterFailure(rest) == rest

\* The metrics are sent to the next connection of the copy; the send may
\* fail, and does when the connection has closed in the meantime. After the
\* last one the task sleeps.
SendMetrics ==
    /\ bpc = "sending"
    /\ CanStep("metrics")
    /\ LET c == Head(targets)
       IN  \E ok \in BOOLEAN :
            /\ ok => stage[c] # "closed"
            /\ tally' = IF ok THEN [tally EXCEPT !.sent = @ \cup {c}]
                        ELSE [tally EXCEPT !.failed = @ \cup {c}]
            /\ targets' = IF ok THEN Tail(targets) ELSE RestAfterFailure(Tail(targets))
    /\ IF targets' = <<>>
       THEN /\ bpc' = "sleep"
            /\ round' = round + 1
       ELSE UNCHANGED <<bpc, round>>
    /\ UNCHANGED <<running, stage, connections>>
    /\ UNCHANGED <<plannerVars, recoveryVars, sessionVars, turnVars, resolverVars, laterVars>>

LoopInit ==
    /\ running = "none"
    /\ stage = [c \in Conns |-> "off"]
    /\ bpc = "sleep"
    /\ round = 0
    /\ targets = <<>>
    /\ connections = <<>>
    /\ tally = NoRound
    /\ PlannerOff
    /\ RecoveryOff
    /\ SessionOff
    /\ TurnOff
    /\ ResolverOff
    /\ LaterOff

LoopNext ==
    \/ \E c \in Conns :
        \/ Accept(c)
        \/ AwaitEngine(c)
        \/ EnterTool(c)
        \/ LeaveTool(c)
        \/ Drop(c)
    \/ Wake
    \/ SendMetrics

LoopSpec == LoopInit /\ [][LoopNext]_vars

\* The loop runs its ready tasks in turn: the broadcast task gets the thread
\* again and again while the thread is given back. Nothing makes a tool's
\* method return.
LoopFairness ==
    /\ SF_vars(Wake)
    /\ SF_vars(SendMetrics)

LoopLiveSpec == LoopSpec /\ LoopFairness

---------------------------------------------------------------------------
(* The Reference Resolver (TaskPlanner._resolve_references)                *)

UpperCase == "ABCDEFGHIJKLMNOPQRSTUVWXYZ"
LowerCase == "abcdefghijklmnopqrstuvwxyz"

\* ch.lower() for one character
LowerCh(ch) ==
    IF \E k \in 1..26 : Ch(UpperCase, k) = ch
    THEN Ch(LowerCase, CHOOSE k \in 1..26 : Ch(UpperCase, k) = ch)
    ELSE ch

\* s.lower()
RECURSIVE Lower(_)
Lower(s) == IF s = "" THEN "" ELSE LowerCh(Ch(s, 1)) \o Lower(Slice(s, 2, Len(s)))

\* \w of a regular expression; the ends of the string are no word characters
WordChar(ch) == ch # "" /\ Contains(LowerCase \o UpperCase \o "0123456789_", ch)

\* Whether the phrase stands at position p of s as \b(phrase)\b under
\* re.IGNORECASE.
PhraseAt(s, p, phrase) ==
    /\ Lower(Slice(s, p, p + Len(phrase) - 1)) = phrase
    /\ ~WordChar(Ch(s, p - 1))
    /\ ~WordChar(Ch(s, p + Len(phrase)))

\* re.sub(r'\b(a|b|...)\b', repl, s, flags=re.IGNORECASE) from position p on:
\* the alternatives are tried in order at each position.
RECURSIVE ReSub(_, _, _, _)
ReSub(phrases, repl, s, p) ==
    IF p > Len(s) THEN ""
    ELSE LET hits == {k \in DOMAIN phrases : PhraseAt(s, p, phrases[k])}
         IN  IF hits = {} THEN Ch(s, p) \o ReSub(phrases, repl, s, p + 1)
             ELSE LET k == CHOOSE h \in hits : \A g \in hits : h <= g
                  IN  repl \o ReSub(phrases, repl, s, p + Len(phrases[k]))

\* s.replace(old, new)
RECURSIVE StrReplace(_, _, _)
StrReplace(s, old, new) ==
    IF Len(s) < Len(old) THEN s
    ELSE IF SubSeq(s, 1, Len(old)) = old
         THEN new \o StrReplace(SubSeq(s, Len(old) + 1, Len(s)), old, new)
         ELSE SubSeq(s, 1, 1) \o StrReplace(SubSeq(s, 2, Len(s)), old, new)

\* Variant of Truthy: an unset field counts as set.
TruthyAlways(value) == TRUE

\* The truth value of a context field ("" is a field that is not set:
\* ctx.get gives None).
Truthy(value) == value # ""

\* ctx.get("last_modified_file") or ctx.get("last_opened_file") or
\* ctx.get("last_created_file")
TargetFile(c) ==
    IF Truthy(c.last_modified_file) THEN c.last_modified_file
    ELSE IF Truthy(c.last_opened_file) THEN c.last_opened_file
    ELSE c.last_created_file

Quoted(path) == "\"" \o path \o "\""

\* _resolve_references(text, ctx)
ResolveReferences(prompt, c) ==
    LET lower_text == Lower(prompt)
        target_file == TargetFile(c)
        target_app == c.last_opened_app
        pronouns ==
            IF Truthy(target_file)
               /\ (Contains(lower_text, " it") \/ Contains(lower_text, "that file")
                   \/ Contains(lower_text, "the file"))
            THEN ReSub(<<"it", "that file", "the file">>,
                       "the file " \o Quoted(target_file), prompt, 1)
            ELSE prompt
        code ==
            IF Truthy(target_file)
               /\ (Contains(lower_text, "fix the code") \/ Contains(lower_text, "modify the code"))
            THEN StrReplace(pronouns, "the code", "the code in " \o Quoted(target_file))
            ELSE pronouns
    IN  IF Truthy(target_app)
           /\ (Contains(lower_text, "that app") \/ Contains(lower_text, "close it"))
        THEN ReSub(<<"that app">>, target_app, code, 1)
        ELSE code

\* What users say.
Prompts ==
    {"", "hello", "open it", "Close It now", "delete that file", "fix the code",
     "close that app", "fit it in", "read The File", "edit kit", "It broke"}

\* The context with no field set.
NoContext ==
    [last_modified_file |-> "", last_opened_file |-> "", last_created_file |-> "",
     last_opened_app |-> ""]

\* Context Store snapshots: nothing set, one field set, several set.
Contexts ==
    {NoContext,
     [NoContext EXCEPT !.last_modified_file = "a.py"],
     [NoContext EXCEPT !.last_opened_file = "b.txt"],
     [NoContext EXCEPT !.last_created_file = "c.md"],
     [NoContext EXCEPT !.last_opened_app = "chrome"],
     [NoContext EXCEPT !.last_modified_file = "a.py", !.last_opened_app = "chrome"],
     [NoContext EXCEPT !.last_opened_file = "b.txt", !.last_created_file = "c.md"],
     [last_modified_file |-> "a.py", last_opened_file |-> "b.txt",
      last_created_file |-> "c.md", last_opened_app |-> "chrome"]}

\* execute_plan resolves the references of the prompt.
Resolve ==
    /\ rpc = "start"
    /\ refined_prompt' = ResolveReferences(user_prompt, context)
    /\ rpc' = "once"
    /\ UNCHANGED <<user_prompt, context, refined_again>>
    /\ UNCHANGED <<plannerVars, recoveryVars, sessionVars, turnVars, loopVars, laterVars>>

\* The resolver applied to its own output.
ResolveAgain ==
    /\ rpc = "once"
    /\ refined_again' = ResolveReferences(refined_prompt, context)
    /\ rpc' = "twice"
    /\ UNCHANGED <<user_prompt, context, refined_prompt>>
    /\ UNCHANGED <<plannerVars, recoveryVars, sessionVars, turnVars, loopVars, laterVars>>

ResolverInit ==
    /\ rpc = "start"
    /\ user_prompt \in Prompts
    /\ context \in Contexts
    /\ refined_prompt = ""
    /\ refined_again = ""
    /\ PlannerOff
    /\ RecoveryOff
    /\ SessionOff
    /\ TurnOff
    /\ LoopOff
    /\ LaterOff

ResolverNext == Resolve \/ ResolveAgain

ResolverSpec == ResolverInit /\ [][ResolverNext]_vars

---------------------------------------------------------------------------
(* The action-first pipeline of the voice path and of the text path, from  *)
(* the utterance to the response, under the same behaviour of the planner  *)
(* and of the Generation engine                                            *)

\* What users say or type (in lower case).
Utterances == {"open notepad", "hello", "/start", "/hello", "/hi", " /hi ", "/help"}

\* The apology sent when the conversational Generation call raises: line 383
\* on the voice path, line 616 (the outer handler) on the text path.
Apology(m) ==
    IF m = "voice" THEN "I'm sorry, I'm having trouble processing that right now."
    ELSE "I'm sorry, I'm having trouble understanding that. Could you please rephrase?"

\* Whether the path calls the planner: the voice path skips it for the
\* special commands (line 348), the text path has no such test.
PlannerTried(m, heard) == ~(m = "voice" /\ SpecialCommand(heard))

\* The pipeline of one path: the planner first (execute_plan, with the
\* Safety Gate and the tools inside it), the conversational call if no task
\* was executed, and the content of the response.
Pipeline(m, heard, result, answer) ==
    LET tried == PlannerTried(m, heard)
        executed == tried /\ result # "" /\ TaskExecuted(m, result)
        planning == IF tried THEN <<"execute_plan">> ELSE <<>>
    IN  IF executed
        THEN [calls |-> planning, response |-> result]
        ELSE [calls |-> Append(planning, "generate_response"),
              response |-> IF answer # "" THEN answer ELSE Apology(m)]

\* The utterance comes in as speech and has been transcribed.
VoicePath ==
    /\ qpc = "start"
    /\ voicePath' = Pipeline("voice", said, plan_result, chat_reply)
    /\ qpc' = "voice"
    /\ UNCHANGED <<said, plan_result, chat_reply, textPath>>
    /\ UNCHANGED <<plannerVars, recoveryVars, sessionVars, turnVars, loopVars, resolverVars, streamVars>>

\* The same utterance comes in as a text message.
TextPath ==
    /\ qpc = "voice"
    /\ textPath' = Pipeline("text", said, plan_result, chat_reply)
    /\ qpc' = "both"
    /\ UNCHANGED <<said, plan_result, chat_reply, voicePath>>
    /\ UNCHANGED <<plannerVars, recoveryVars, sessionVars, turnVars, loopVars, resolverVars, streamVars>>

PathsInit ==
    /\ qpc = "start"
    /\ said \in Utterances
    /\ plan_result \in PlanResults
    /\ chat_reply \in ChatReplies
    /\ voicePath = NoPath
    /\ textPath = NoPath
    /\ PlannerOff
    /\ RecoveryOff
    /\ SessionOff
    /\ TurnOff
    /\ LoopOff
    /\ ResolverOff
    /\ StreamOff

PathsNext == VoicePath \/ TextPath

PathsSpec == PathsInit /\ [][PathsNext]_vars

---------------------------------------------------------------------------
(* EdgeTTSStreamer.stream_text: the engine's chunks, the local buffer and  *)
(* the blocks yielded                                                      *)

\* `if len(chunk_buffer) >= 16`
BlockSize == 16

\* The texts the streamer is called with.
SpokenTexts == {"", "  ", "Done."}

\* The types of the chunks communicate.stream() produces.
ChunkTypes == {"audio", "WordBoundary"}

\* The data of the n-th chunk of the stream: one byte, another for every
\* audio chunk; a chunk that is no audio carries none of them.
DataOf(type, n) == IF type = "audio" THEN Ch(UpperCase \o LowerCase, n) ELSE "-"

\* The chunks of the stream that are no audio.
NoAudio(chunks) == SelectSeq(chunks, LAMBDA c : c.type # "audio")

\* `if not text or not text.strip()`
BlankText(s) == s = "" \/ Strip(s) = ""

\* The generator is started: on an empty or blank text it returns at once.
StartStream ==
    /\ spc = "start"
    /\ IF BlankText(tts_text)
       THEN /\ spc' = "done"
            /\ streamEnd' = "no text"
       ELSE /\ spc' = "streaming"
            /\ UNCHANGED streamEnd
    /\ UNCHANGED <<tts_text, engineChunks, chunk_buffer, yielded>>
    /\ UNCHANGED <<plannerVars, recoveryVars, sessionVars, turnVars, loopVars, resolverVars, pathVars>>

\* The engine produces its next chunk. The data of an audio chunk is
\* appended to the buffer, and a buffer of 16 is yielded as one block.
EngineChunk ==
    /\ spc = "streaming"
    /\ Len(engineChunks) < MaxChunks
    /\ \E type \in ChunkTypes :
        LET n == Len(engineChunks) + 1
            chunk == [type |-> type, data |-> DataOf(type, n)]
            appended == Append(chunk_buffer, chunk.data)
        IN  /\ type # "audio" => Len(NoAudio(engineChunks)) < MaxOther
            /\ engineChunks' = Append(engineChunks, chunk)
            /\ IF type = "audio"
               THEN IF Len(appended) >= BlockSize
                    THEN /\ yielded' = Append(yielded, Concat(appended))
                         /\ chunk_buffer' = <<>>
                    ELSE /\ chunk_buffer' = appended
                         /\ UNCHANGED yielded
               ELSE UNCHANGED <<chunk_buffer, yielded>>
    /\ UNCHANGED <<spc, tts_text, streamEnd>>
    /\ UNCHANGED <<plannerVars, recoveryVars, sessionVars, turnVars, loopVars, resolverVars, pathVars>>

\* The engine's stream is exhausted: what is left in the buffer is yielded.
StreamEnds ==
    /\ spc = "streaming"
    /\ yielded' = IF chunk_buffer # <<>> THEN Append(yielded, Concat(chunk_buffer))
                  ELSE yielded
    /\ spc' = "done"
    /\ streamEnd' = "exhausted"
    /\ UNCHANGED <<tts_text, engineChunks, chunk_buffer>>
    /\ UNCHANGED <<plannerVars, recoveryVars, sessionVars, turnVars, loopVars, resolverVars, pathVars>>

\* The engine raises (no network, a rejected voice): the except clause logs
\* the exception and the generator ends. The buffer is a local of the
\* generator; nothing yields what it holds.
StreamFails ==
    /\ spc = "streaming"
    /\ spc' = "done"
    /\ streamEnd' = "failed"
    /\ UNCHANGED <<tts_text, engineChunks, chunk_buffer, yielded>>
    /\ UNCHANGED <<plannerVars, recoveryVars, sessionVars, turnVars, loopVars, resolverVars, pathVars>>

StreamInit ==
    /\ spc = "start"
    /\ tts_text \in SpokenTexts
    /\ engineChunks = <<>>
    /\ chunk_buffer = <<>>
    /\ yielded = <<>>
    /\ streamEnd = ""
    /\ PlannerOff
    /\ RecoveryOff
    /\ SessionOff
    /\ TurnOff
    /\ LoopOff
    /\ ResolverOff
    /\ PathsOff

StreamNext == StartStream \/ EngineChunk \/ StreamEnds \/ StreamFails

StreamSpec == StreamInit /\ [][StreamNext]_vars


---------------------------------------------------------------------------
(* Properties                                                              *)

\* Positions of the log holding an event of one kind.
At(ev) == {p \in DOMAIN log : log[p].ev = ev}

\* execute_plan is over.
Returned == pc \in {"returned", "responded"} /\ plan.steps # <<>>

\* The Safety Gate has disallowed a step; RejectedStep is the first such step
\* and RejectionReason the reason given for it.
Rejected == \E p \in At("validate") : ~log[p].ok
FirstRejection ==
    CHOOSE p \in At("validate") :
        ~log[p].ok /\ \A q \in At("validate") : ~log[q].ok => p <= q
RejectedStep == log[FirstRejection].step
RejectionReason == log[FirstRejection].info

\* The plan ran to completion.
Completed == Returned /\ i > Len(plan.steps)

\* The steps a tool was called for.
CalledSteps == {log[p].step : p \in At("call")}

\* C1: for every step the loop reaches, the Safety Gate is called exactly
\* once, in plan order (step 1 first, no step left out), before that step's
\* tool call; a tool is called only for a step whose check returned allowed,
\* never for a disallowed one; a plan that completes had every step checked.
C1_GateOnceBeforeEachTool ==
    /\ \A p \in At("validate") :
        log[p].step = Cardinality({q \in At("validate") : q <= p})
    /\ \A p \in At("call") :
        \E q \in At("validate") : q < p /\ log[q].step = log[p].step /\ log[q].ok
    /\ \A q \in At("validate") : ~log[q].ok => log[q].step \notin CalledSteps
    /\ Completed =>
        \A k \in 1..Len(plan.steps) :
            Cardinality({q \in At("validate") : log[q].step = k}) = 1

\* Steps 1 and 2 were checked and run, step 3 was disallowed.
C1_Witness ==
    /\ CalledSteps = {1, 2}
    /\ Rejected
    /\ RejectedStep = 3

\* C2: once the Safety Gate disallows step k, execute_plan returns: the
\* rejection stays the last thing that happened (no later step is checked or
\* run), and what steps 1..k-1 did stays as it is (the record of their calls
\* and what they wrote to the Context Store are not touched again).
C2_AbortAtFirstRejection ==
    /\ [](Rejected =>
            /\ FirstRejection = Len(log)
            /\ pc \in {"returned", "responded"}
            /\ i = RejectedStep
            /\ CalledSteps = 1..(RejectedStep - 1))
    /\ [][Rejected => (log' = log /\ ctx' = ctx /\ i' = i)]_vars

\* Step 1 launched an app (recorded in the Context Store), step 2 was
\* disallowed, and the reply has gone out.
C2_Witness ==
    /\ Rejected
    /\ RejectedStep = 2
    /\ pc = "responded"
    /\ ctx0.last_opened_app = ""
    /\ ctx.last_opened_app = "notepad"

\* The last outbound message is the response.
LastSent == sent[Len(sent)]

\* C3 as stated: when a Safety Gate rejection with reason R aborts the plan,
\* the string execute_plan returns, and the response sent, is exactly R.
C3_ResponseIsExactlyReason ==
    Rejected =>
        /\ pc \in {"returned", "responded"} => retval = RejectionReason
        /\ pc = "responded" => LastSent = [type |-> "response", content |-> RejectionReason]

\* C3 as amended: the returned string, and the response sent, is the fixed
\* sentence "I couldn't complete the task because: " followed by R.
C3_ResponseIsPrefixedReason ==
    Rejected =>
        /\ pc \in {"returned", "responded"} =>
            /\ Len(retval) = 38 + Len(RejectionReason)
            /\ SubSeq(retval, 1, 38) = "I couldn't complete the task because: "
            /\ SubSeq(retval, 39, Len(retval)) = RejectionReason
        /\ pc = "responded" => LastSent = [type |-> "response", content |-> retval]

\* A rejection for "blocked command" has been answered.
C3_Witness ==
    /\ Rejected
    /\ RejectionReason = "blocked command"
    /\ pc = "responded"
    /\ LastSent.type = "response"

\* C4 as stated: if the Safety Gate disallows any step of a plan, no tool call
\* of that plan is made.
C4_NoToolCallIfAnyStepDisallowed == Rejected => CalledSteps = {}

\* C4 as amended: a tool call is under way only for a non-empty plan whose
\* steps up to the current one all passed the Safety Gate; and when the gate
\* disallows step k, no tool call is made for step k or any later step (the
\* steps before k, all allowed, have run).
C4_ExecutingOnlyPastTheGate ==
    /\ pc \in {"execute", "in_tool"} =>
        /\ plan.steps # <<>>
        /\ i \in 1..Len(plan.steps)
        /\ \A k \in 1..i : \E q \in At("validate") : log[q].step = k /\ log[q].ok
    /\ \A q \in At("validate") :
        ~log[q].ok => \A k \in CalledSteps : k < log[q].step

\* Step 1 ran and step 2 was disallowed.
C4_Witness ==
    /\ Rejected
    /\ RejectedStep = 2
    /\ CalledSteps = {1}
    /\ pc = "returned"

\* The tool calls and the returns from them, in order.
Calls == SelectSeq(log, LAMBDA e : e.ev = "call")
Returns == SelectSeq(log, LAMBDA e : e.ev = "return")

\* C5: the tool invocations made so far are a prefix of the plan's steps, in
\* plan order with none skipped or repeated; a step's call starts only after
\* the previous step's call returned, so at most one call is under way.
C5_CallsArePrefixOfPlan ==
    /\ Len(Calls) <= Len(plan.steps)
    /\ \A k \in 1..Len(Calls) :
        /\ Calls[k].step = k
        /\ Calls[k].info = plan.steps[k].tool \o "." \o plan.steps[k].action
    /\ \A p \in At("call") :
        log[p].step > 1 =>
            \E q \in At("return") : q < p /\ log[q].step = log[p].step - 1 /\ log[q].ok
    /\ \A k \in 1..Len(Returns) : Returns[k].step = k
    /\ Len(Calls) - Len(Returns) = (IF pc = "in_tool" THEN 1 ELSE 0)

\* A plan of three steps ran all three and completed.
C5_Witness ==
    /\ Completed
    /\ Len(plan.steps) = 3
    /\ Len(Calls) = 3
    /\ plan.steps[1] # plan.steps[2]

\* The loop is past step k: it went on to a later step, or execute_plan is over.
Past(k) == i > k \/ (i = k /\ pc \in {"returned", "responded"})

\* Step k failed: its tool or action is not one of the tools' table, or its
\* call raised.
UnknownTool(k) == plan.steps[k].tool \notin KnownTools
UnknownAction(k) ==
    /\ ~UnknownTool(k)
    /\ plan.steps[k].action \notin MethodsOf(ResolveTool(plan.steps[k].tool))
CallRaised(k) == \E p \in At("return") : log[p].step = k /\ ~log[p].ok

\* C6: when a step that passed the Safety Gate names an unknown tool or
\* action, or its tool call raises, execute_plan stops at that step (no later
\* step is checked or run) and returns the error message of that step.
C6_StepErrorAbortsPlan ==
    \A k \in 1..Len(plan.steps) :
        (/\ Past(k)
         /\ \E q \in At("validate") : log[q].step = k /\ log[q].ok
         /\ (UnknownTool(k) \/ UnknownAction(k) \/ CallRaised(k)))
        => /\ i = k
           /\ pc \in {"returned", "responded"}
           /\ lastRes.raised
           /\ retval = "Error executing step " \o plan.steps[k].action \o ": " \o lastRes.err
           /\ \A p \in DOMAIN log : log[p].step <= k

\* C7: every tool call is made for one of the four names of the table
\* (system_control, file_manager, browser_agent, input_controller); a step
\* with any other tool name fails with an unknown-tool error without a call.
C7_DispatchTableIsClosed ==
    /\ \A p \in At("call") : plan.steps[log[p].step].tool \in KnownTools
    /\ \A k \in 1..Len(plan.steps) :
        (pc = "returned" /\ i = k /\ UnknownTool(k) /\ ~Rejected) =>
            lastRes = Raise("Unknown tool: " \o plan.steps[k].tool)

\* " and ".join, built from the left.
JoinedWithAnd(rs) ==
    LET J[k \in 0..Len(rs)] ==
            IF k = 0 THEN ""
            ELSE IF k = 1 THEN rs[1]
            ELSE J[k - 1] \o " and " \o rs[k]
    IN  J[Len(rs)]

\* C8: when a non-empty plan ran to completion, the returned summary is
\* "Done." if no message was retained, the retained message itself if there
\* is one, and otherwise the retained messages in step order joined by " and ".
C8_SummaryOfCompletedPlan ==
    Completed =>
        /\ results = <<>> => retval = "Done."
        /\ Len(results) = 1 => retval = results[1]
        /\ results # <<>> => retval = JoinedWithAnd(results)

\* A completed plan with two retained messages.
C8_Witness ==
    /\ Completed
    /\ Len(results) = 2
    /\ results[1] # results[2]
    /\ pc = "responded"

\* The message string a step result carries: the second element of a tuple
\* or a plain string; nothing for a bare boolean or any other shape.
CarriedMessage(res) ==
    IF res.tuple /\ Len(res.items) >= 2 /\ res.items[2].t = "str" THEN res.items[2].s
    ELSE IF ~res.tuple /\ res.items[1].t = "str" THEN res.items[1].s
    ELSE ""

\* C9: a step whose result is a bare boolean or carries an empty message adds
\* nothing to the retained messages; a step whose result carries a non-empty
\* message string has that message appended, after those of the earlier steps.
C9_NonEmptyMessagesRetained ==
    [][(pc = "in_tool" /\ pc' = "loop") =>
        results' = IF CarriedMessage(lastRes') # ""
                   THEN Append(results, CarriedMessage(lastRes'))
                   ELSE results]_vars

\* C10: once execute_plan has returned from a plan in which a step was
\* reached (completed, or aborted by the Safety Gate or a step error), the
\* Context Store holds the returned string as last_task_summary; when no
\* step ran, the Context Store is as it was.
C10_SummaryStoredOnCompletionOrAbort ==
    pc \in {"returned", "chat", "responded"} =>
        IF plan.steps # <<>>
        THEN ctx.last_task_summary = retval
        ELSE ctx = ctx0

---------------------------------------------------------------------------
(* Plan recovery (RecoverySpec)                                            *)

\* Braces that pair up: never more closed than opened, none left open.
Balanced(text) ==
    LET Opened(n) == Cardinality({p \in 1..n : Ch(text, p) = "{"})
        Closed(n) == Cardinality({p \in 1..n : Ch(text, p) = "}"})
    IN  /\ \A n \in 1..Len(text) : Closed(n) <= Opened(n)
        /\ Opened(Len(text)) = Closed(Len(text))

\* An answer no plan can be recovered from.
Unrecoverable(text) ==
    \/ ~JsonLoads(ExtractJson(text)).ok
    \/ ~Contains(text, "{")
    \/ ~Balanced(text)

EngineFailed == gpc \in {"failed", "returned_failed", "validated_failed"}
PlanReturned == gpc \in {"returned", "returned_failed", "validated", "validated_failed"}
PlanValidated == gpc \in {"validated", "validated_failed"}

\* C11: when the engine call fails, or its answer cannot be parsed, holds no
\* "{" or has unbalanced braces, _generate_plan returns the error signal
\* (no steps, error tag set) and execute_plan returns the no-action signal;
\* neither raises.
C11_UnrecoverableGivesErrorSignal ==
    (EngineFailed \/ Unrecoverable(response_text)) =>
        /\ PlanReturned => recovered = ErrorSignal
        /\ PlanValidated => planHead = "NO_ACTION_REQUIRED"

\* C12: an answer that is one balanced JSON object inside brace-free prose
\* and code-fence markers is recovered as exactly that object, which is the
\* plan returned.
C12_EmbeddedObjectRecovered ==
    (PlanReturned /\ embedded # "") =>
        /\ ExtractJson(response_text) = embedded
        /\ recovered = [JsonLoads(embedded) EXCEPT !.end = 0]

---------------------------------------------------------------------------
(* Degrading to conversation (Spec)                                        *)

\* Planning gave nothing to execute: the engine call failed, its answer was
\* unparseable or unusable, or the plan came back empty.
Degraded == planFault # "none" \/ (planCalls > 0 /\ plan.steps = <<>>)

ResponsesSent == SelectSeq(sent, LAMBDA m : m.type = "response")

\* C13: the planner calls the Generation engine at most once per utterance;
\* when that call fails, its answer is unparseable or the plan is empty, no
\* Safety Gate check and no tool call is made, and the reply is produced by
\* exactly one conversational Generation call.
C13_OneCallThenConversation ==
    /\ planCalls <= 1
    /\ Degraded =>
        /\ log = <<>>
        /\ chatCalls = IF pc = "responded" THEN 1 ELSE 0
        /\ Len(ResponsesSent) = chatCalls
        /\ pc \in {"returned", "chat", "responded"}

C13_Witness ==
    /\ pc = "responded"
    /\ planFault = "unparseable"
    /\ planCalls = 1
    /\ chatCalls = 1
    /\ LastSent.type = "response"

---------------------------------------------------------------------------
(* The session loop and its buffers (SessionSpec)                          *)

\* What the manager holds for a connection: its registry entry and its
\* entries in the four maps (absent entries read as <<>>).
Entry(d, c) == IF c \in DOMAIN d THEN <<d[c]>> ELSE <<>>
Held(c) ==
    [registered |-> c \in active_connections,
     buffer |-> Entry(audio_buffer, c),
     header |-> Entry(session_headers, c),
     started |-> Entry(buffer_start_time, c),
     recording |-> Entry(is_recording, c)]

NothingHeld ==
    [registered |-> FALSE, buffer |-> <<>>, header |-> <<>>, started |-> <<>>,
     recording |-> <<>>]

Closed(c) == lifecycle[c] = "closed"

\* The arrival number of the message handled last on c.
LastHandled(c) == handled[c][Len(handled[c])]

\* C14: a malformed inbound envelope is ignored: in the step that takes it
\* the session sends nothing, keeps its buffers and its registry entry, and
\* stays in the loop to receive the next message.
C14_MalformedEnvelopeIgnored ==
    [][\A c \in Conns :
        (Ready(c) /\ inbox[c] # <<>> /\ ~Incoming(c).json /\ handled'[c] # handled[c]) =>
            /\ Ready(c)'
            /\ Held(c)' = Held(c)
            /\ replies'[c] = <<>>]_vars

\* Failures met while handling a message that are no loss of the transport.
HandlingFailures == {"malformed", "decode", "metrics"}

\* C15: no failure raised while handling a message, other than the loss of
\* the connection's transport, ends the session loop; a failure that is
\* reported leaves the session idle in the loop.
C15_OnlyTransportLossEndsLoop ==
    \A c \in Conns :
        /\ closeCause[c] \notin HandlingFailures
        /\ (\E k \in DOMAIN replies[c] : replies[c][k].type = "error") =>
               /\ Ready(c)
               /\ replies[c][Len(replies[c])] = Status("idle")

\* C16: once the disconnect handler has returned for a connection, whatever
\* ended its session, the connection is not in the registry and none of the
\* four maps has an entry for it.
C16_NothingHeldAfterDisconnect ==
    \A c \in Conns : Closed(c) => Held(c) = NothingHeld

C16_Witness ==
    /\ Closed("ws1")
    /\ closeCause["ws1"] = "decode"
    /\ Len(handled["ws1"]) >= 2
    /\ "ws2" \in active_connections
    /\ "ws2" \in DOMAIN audio_buffer
    /\ "ws2" \in DOMAIN session_headers

\* C17: the messages of a connection are handled in the order they arrived,
\* at most one process_audio_buffer operation is in flight per session, and
\* while it is, the stop signal that started it is the last message handled:
\* whatever arrived meanwhile waits.
C17_OneMessageAtATime ==
    \A c \in Conns :
        /\ \A k \in DOMAIN handled[c] : handled[c][k] = k
        /\ draining[c] <= 1
        /\ lifecycle[c] = "processing" =>
               /\ draining[c] = 1
               /\ lastType[c] = "stop_audio"
               /\ \A k \in DOMAIN inbox[c] : inbox[c][k].seq > LastHandled(c)

C17_Witness ==
    /\ lifecycle["ws1"] = "processing"
    /\ inbox["ws1"] # <<>>
    /\ Incoming("ws1").type = "stop_audio"

\* C18: after a stop signal handled with a non-empty buffer, the buffer is
\* empty and the recording flag false, while the unit is processed and
\* until the next message is handled, whether processing succeeded or not.
C18_DrainedBeforeNextMessage ==
    \A c \in Conns :
        (lastType[c] = "stop_audio" /\ units[c].fragments # <<>>) =>
                /\ audio_buffer[c] = <<>>
                /\ is_recording[c] = FALSE
                /\ batch[c] = <<>>

C18_Witness ==
    /\ Ready("ws1")
    /\ lastType["ws1"] = "stop_audio"
    /\ units["ws1"].fragments # <<>>
    /\ replies["ws1"] # <<>>
    /\ replies["ws1"][1].type = "error"
    /\ inbox["ws1"] # <<>>

---------------------------------------------------------------------------
(* One session, turn by turn (TurnSpec, TurnLiveSpec)                      *)

Selecting == tpc \in {"select_tts", "select_llm"}

\* The turn is over: the session is back at the head of its loop.
TurnOver == tpc = "idle" /\ turns > 0

\* An input has been accepted and its processing is under way.
InTurn == tpc \in {"transcoding", "transcribing", "planning", "chat", "speaking"}

\* Inputs that are accepted: a stop signal with fragments buffered, a text
\* message that has text.
AcceptedInput == accepted \in {"stop:fragments", "text:open notepad"}

\* Positions in the turn's outbound messages of the messages of a type.
Sent(type) == {k \in DOMAIN outbound : outbound[k].type = type}

EndsWithIdle == outbound # <<>> /\ outbound[Len(outbound)] = Status("idle")

\* C21: a stop signal that finds no buffer, or an empty one, is handled like
\* an empty transcript: Transcription is not called, no user_message and no
\* response is sent, and the client is told status idle.
C21_EmptyBufferNotifiesIdle ==
    (TurnOver /\ accepted \in {"stop:absent", "stop:empty"}) =>
        /\ sttCalls = 0
        /\ outbound = <<Status("idle")>>

\* What a turn sends and calls when nothing was said.
NoSpeechHandling ==
    /\ outbound = <<Status("idle")>>
    /\ plannerRuns = 0
    /\ genCalls = 0
    /\ ttsCalls = 0

\* Planning, generation, synthesis or a message about the utterance.
Proceeded ==
    \/ plannerRuns + genCalls + ttsCalls > 0
    \/ Sent("user_message") # {}
    \/ Sent("response") # {}

\* C22 as stated: after a stop signal with fragments buffered Transcription
\* runs exactly once; an empty or blank transcript gives status idle and
\* nothing else; only a transcript that holds speech goes on to planning.
C22_TranscribedExactlyOnce ==
    (TurnOver /\ accepted = "stop:fragments") =>
        /\ sttCalls = 1
        /\ (fault = "none" /\ Strip(transcript) = "") => NoSpeechHandling
        /\ Proceeded => Strip(transcript) # ""

\* C22: after a stop signal with fragments buffered Transcription runs at
\* most once, and exactly once unless transcoding or the construction of the
\* transcription client failed first; an empty or blank transcript gives
\* status idle and nothing else; only a transcript that holds speech goes on
\* to planning.
C22_TranscribedAtMostOnce ==
    accepted = "stop:fragments" =>
        /\ sttCalls <= 1
        /\ Proceeded => Strip(transcript) # ""
        /\ TurnOver =>
            /\ sttCalls = IF fault \in {"transcoding", "stt_init"} THEN 0 ELSE 1
            /\ (fault = "none" /\ Strip(transcript) = "") => NoSpeechHandling

C22_Witness ==
    /\ TurnOver
    /\ accepted = "stop:fragments"
    /\ sttCalls = 1
    /\ transcript = "  "
    /\ outbound = <<Status("idle")>>

\* C23: every accepted input brings the session back to the head of its
\* loop, and status idle is the last message of its processing, on the
\* success path and after a failure of transcoding, transcription, planning,
\* generation or synthesis alike.
C23_AcceptedInputEndsIdle ==
    /\ [](TurnOver /\ AcceptedInput => EndsWithIdle)
    /\ InTurn ~> (TurnOver /\ EndsWithIdle)

C23_Witness ==
    /\ TurnOver
    /\ turnMode = "voice"
    /\ fault = "synthesis"
    /\ Sent("error") # {}
    /\ EndsWithIdle

\* C24: whenever a reply is synthesized, status speaking is sent after the
\* response and before any tts_audio, for voice and text input alike.
C24_SpeakingAnnounced ==
    (TurnOver /\ ttsCalls > 0) =>
        \E s \in Sent("status") :
            /\ outbound[s] = Status("speaking")
            /\ \A r \in Sent("response") : r < s
            /\ \A a \in Sent("tts_audio") : s < a

\* C25: the primary Synthesis engine is bound exactly when the key read at
\* the session's start is present, longer than 10 characters, no
\* placeholder, and its construction did not raise; the fallback is bound in
\* every other case; one engine is bound.
C25_SynthesisSelection ==
    ~(tpc = "select_tts") =>
        /\ tts_streamer \in {"ElevenLabs", "EdgeTTS"}
        /\ tts_streamer = "ElevenLabs" <=>
            /\ fresh_eleven_key # ""
            /\ Len(fresh_eleven_key) > 10
            /\ ~StartsWith(fresh_eleven_key, "sk_placeholder")
            /\ "ElevenLabs" \notin raisedAt

C25_Witness ==
    /\ tpc = "idle"
    /\ fresh_eleven_key = "sk_placeholder_key"
    /\ tts_streamer = "EdgeTTS"
    /\ announced = <<StatusInfo("EdgeTTS (Free)")>>

\* C26: the primary Generation engine is bound only if the key read at the
\* session's start is present, longer than 20 characters and no placeholder;
\* otherwise, or when its construction raises, the fallback is bound; one
\* engine is bound.
C26_GenerationSelection ==
    ~Selecting =>
        /\ active_llm \in {"Groq", "Gemini"}
        /\ active_llm = "Groq" <=>
            /\ fresh_groq_key # ""
            /\ Len(fresh_groq_key) > 20
            /\ ~StartsWith(fresh_groq_key, "sk_placeholder")
            /\ "Groq" \notin raisedAt

\* C27: the engines are selected once, before any inbound message is
\* handled, and the selection is announced by one status_info message that
\* names the Synthesis engine; from then on both engines stay as they were
\* bound, whatever happens to the keys or to a call.
C27_SelectedOnceAndKept ==
    /\ [](Selecting => turns = 0 /\ outbound = <<>>)
    /\ [](~Selecting =>
            /\ Len(announced) = 1
            /\ announced[1].type = "status_info"
            /\ StartsWith(announced[1].content, tts_streamer))
    /\ [][~Selecting => (tts_streamer' = tts_streamer /\ active_llm' = active_llm)]_vars

C27_Witness ==
    /\ TurnOver
    /\ turns = 2
    /\ fault = "synthesis"
    /\ tts_streamer = "ElevenLabs"
    /\ active_llm = "Groq"
    /\ env_eleven_key = ""
    /\ env_groq_key = ""

---------------------------------------------------------------------------
(* The event loop (LoopSpec, LoopLiveSpec)                                 *)

\* C28: a tool call is a suspension point of the session's task: while a
\* session is inside one, the broadcast task and the tasks of the other
\* connections can take steps.
C28_ToolCallSuspends ==
    \A c \in Conns :
        stage[c] = "tool" =>
            /\ CanStep("metrics")
            /\ \A d \in Conns \ {c} : CanStep(d)

\* The connections a round has tried to send to.
Tried == tally.sent \cup tally.failed

RoundOver == bpc = "sleep" /\ tally.snapshot # <<>>

\* C29: the broadcast task never stops and no session's failure holds it
\* up: a failed send does not keep the round from sending to the other
\* registered connections, a failure collecting the metrics costs that
\* round only, and the next round always follows.
C29_BroadcastNeverStopped ==
    /\ [](bpc \in {"sleep", "sending"})
    /\ [](RoundOver =>
            Tried = IF tally.collected THEN Members(tally.snapshot) ELSE {})
    /\ [](bpc = "sending" => Tried \cup Members(targets) = Members(tally.snapshot))
    /\ <>(round = MaxRounds)

---------------------------------------------------------------------------
(* The Reference Resolver (ResolverSpec)                                   *)

\* C30: with no context field set the resolver returns its input unchanged,
\* for every input, so that applying it twice is applying it once.
C30_IdentityOnEmptyContext ==
    (context = NoContext /\ rpc # "start") =>
        /\ refined_prompt = user_prompt
        /\ rpc = "twice" => refined_again = refined_prompt

C30_Witness ==
    /\ context = NoContext
    /\ rpc = "twice"
    /\ user_prompt = "Close It now"
    /\ refined_again = "Close It now"

\* The pronouns of rule 1, as whole words in any letter case.
FilePronouns == <<"it", "that file", "the file">>

\* Whether the utterance holds one of the pronouns of rule 1.
NamesAFile(s) ==
    \E p \in 1..Len(s) : \E k \in DOMAIN FilePronouns : PhraseAt(s, p, FilePronouns[k])

\* The first set field in the order modified, opened, created.
FirstSetFile(c) ==
    IF c.last_modified_file # "" THEN c.last_modified_file
    ELSE IF c.last_opened_file # "" THEN c.last_opened_file
    ELSE c.last_created_file

\* C31: when a file field is set and the utterance holds the whole word "it"
\* (anywhere, the start included, in any letter case), "that file" or "the
\* file", every such occurrence is replaced with the file "<value>", the value
\* being the first set field in the order modified, opened, created.  (Stated
\* for utterances the two later rules leave alone.)
C31_EveryPronounReplaced ==
    (/\ rpc # "start"
     /\ FirstSetFile(context) # ""
     /\ NamesAFile(user_prompt)
     /\ ~Contains(Lower(user_prompt), "the code")
     /\ ~Contains(Lower(user_prompt), "that app"))
    => refined_prompt
         = ReSub(FilePronouns, "the file \"" \o FirstSetFile(context) \o "\"",
                 user_prompt, 1)

\* Whether a tool method of the utterance's plan was called.
ToolCalled == \E k \in DOMAIN log : log[k].ev = "call"

\* C32: either action or chat, never both: the conversational Generation call
\* is made only if no tool call of the utterance's plan was executed, also when
\* the execution of the plan fails after a step has run.
C32_ActionOrChatNeverBoth == (chatCalls > 0 \/ pc = "chat") => ~ToolCalled

\* A result that reports failure without raising: (False, message).
ReportsFailure(res) ==
    ~res.raised /\ res.tuple /\ Len(res.items) >= 2 /\ res.items[1] = PyBool(FALSE)

\* C33: a step whose tool returns success = false without raising does not
\* abort the plan: the loop goes on to the next step, whose check and call
\* follow; the step's message is retained under the filter of every message;
\* and a plan that completes after it has its summary built from the retained
\* messages, returned and stored as last_task_summary.
C33_FailedStepDoesNotAbort ==
    /\ [][(pc = "in_tool" /\ pc' # "in_tool" /\ ReportsFailure(lastRes')) =>
            /\ pc' = "loop"
            /\ i' = i + 1
            /\ retval' = retval
            /\ results' =
                 IF CarriedMessage(lastRes') # ""
                    /\ ~Contains(CarriedMessage(lastRes'), "True")
                    /\ ~Contains(CarriedMessage(lastRes'), "False")
                 THEN Append(results, CarriedMessage(lastRes'))
                 ELSE results]_vars
    /\ [](pc = "loop" /\ ReportsFailure(lastRes) =>
            /\ Returns # <<>>
            /\ i = Returns[Len(Returns)].step + 1
            /\ i <= Len(plan.steps) => ENABLED SafetyCheck)
    /\ [](Completed /\ (\E k \in DOMAIN results : results[k] = "No process found") =>
            /\ retval = JoinedWithAnd(results)
            /\ ctx.last_task_summary = retval)

\* Step 1 of three reported failure; steps 2 and 3 were checked and run, and
\* the summary joins the failed step's message with a later one.
C33_Witness ==
    /\ Completed
    /\ Len(plan.steps) = 3
    /\ Len(Calls) = 3
    /\ Cardinality({q \in At("validate") : log[q].ok}) = 3
    /\ results = <<"No process found", "Launched notepad">>
    /\ retval = "No process found and Launched notepad"
    /\ ctx.last_task_summary = retval
    /\ pc = "responded"

\* The bytes of some fragments, in their order.
RECURSIVE BytesOf(_)
BytesOf(fr) ==
    IF fr = <<>> THEN "" ELSE BytesOf(SubSeq(fr, 1, Len(fr) - 1)) \o fr[Len(fr)]

\* The fragments of c handled and not yet assembled into a unit.
Buffered(c) == IF c \in DOMAIN audio_buffer THEN audio_buffer[c] ELSE <<>>

\* The step assembles a unit for c.
Assembles(c) == draining'[c] = draining[c] + 1

\* C34: every audio fragment received on a connection is included in exactly
\* one assembled unit, in arrival order.  The fragments handled since the last
\* unit are the buffer, in the order they arrived; a stop signal assembles
\* exactly those, each once, and leaves none of them behind for the next
\* unit; what is put in front of them is nothing or the retained header;
\* a fragment that arrives while a unit is processed waits in the transport
\* and is handled, unchanged, after the processing.
C34_EachFragmentInExactlyOneUnit ==
    /\ [](\A c \in Conns : ~Closed(c) => Buffered(c) = batch[c])
    /\ [][\A c \in Conns :
            (/\ Receives(c, "audio_chunk")
             /\ handled'[c] # handled[c]
             /\ Incoming(c).payload.b64
             /\ ~Closed(c)') =>
                /\ Buffered(c)' = Append(Buffered(c), Incoming(c).payload.bytes)
                /\ units'[c] = units[c]]_vars
    /\ [][\A c \in Conns :
            Assembles(c) =>
                /\ units'[c].fragments = Buffered(c)
                /\ Buffered(c)' = <<>>
                /\ units'[c].unit \in
                     {BytesOf(Buffered(c))}
                        \cup {session_headers[d] \o BytesOf(Buffered(c)) :
                                d \in DOMAIN session_headers \cap {c}}]_vars
    /\ [][\A c \in Conns :
            (lifecycle[c] = "processing" /\ ~Closed(c)') =>
                /\ Buffered(c)' = Buffered(c)
                /\ units'[c] = units[c]
                /\ \E k \in 0..1 : SubSeq(inbox'[c], 1, Len(inbox'[c]) - k) = inbox[c]]_vars

\* A second unit was assembled from the fragment handled after the first
\* unit, behind the retained header, and nothing is left in the buffer.
C34_Witness ==
    /\ lifecycle["ws1"] = "processing"
    /\ handled["ws1"] = <<1, 2, 3, 4>>
    /\ firstFragment["ws1"] = "EBML-h"
    /\ units["ws1"].fragments = <<"a">>
    /\ units["ws1"].unit = "EBML-h" \o "a"
    /\ audio_buffer["ws1"] = <<>>

\* The turn's input had words: a text message with text, or a transcript
\* that holds speech.
SpokenInput ==
    \/ turnMode = "text" /\ accepted # "text:"
    \/ turnMode = "voice" /\ transcript # "" /\ Strip(transcript) # ""

\* Every message of the first type comes before every message of the second.
Before(first, second) == \A a \in Sent(first), b \in Sent(second) : a < b

\* C35: for each non-empty text input and each non-empty transcript exactly
\* one response is sent, and the outbound messages of the input are ordered:
\* status processing, user_message, response, any audio_level messages, at
\* most one tts_audio (only if the synthesis gave a frame), status idle.
C35_OneResponseInOrder ==
    /\ Cardinality(Sent("response")) <= 1
    /\ (TurnOver /\ SpokenInput) =>
        /\ Len(outbound) >= 4
        /\ outbound[1] = Status("processing")
        /\ outbound[2].type = "user_message"
        /\ outbound[3].type = "response"
        /\ Cardinality(Sent("response")) = 1
        /\ Cardinality(Sent("user_message")) = 1
        /\ Before("response", "audio_level")
        /\ Before("audio_level", "tts_audio")
        /\ Cardinality(Sent("tts_audio")) <= 1
        /\ Sent("tts_audio") # {} => Sent("audio_level") # {}
        /\ outbound[Len(outbound)] = Status("idle")
        /\ \A k \in Sent("status") :
              outbound[k] \in {Status("processing"), Status("idle")} => k \in {1, Len(outbound)}

\* A transcript was answered and spoken in two chunks: processing, the
\* user_message, the response, the levels, the audio, idle.
C35_Witness ==
    /\ TurnOver
    /\ turnMode = "voice"
    /\ transcript = "open notepad"
    /\ Cardinality(Sent("audio_level")) = 2
    /\ Cardinality(Sent("tts_audio")) = 1
    /\ Cardinality(Sent("response")) = 1
    /\ Len(outbound) = 8

\* C37: the metrics broadcaster never sends to a connection after that
\* connection's disconnect handler has returned, whatever the interleaving of
\* the round with connects and disconnects.
C37_NoSendAfterDisconnect ==
    [][(bpc = "sending" /\ targets' # targets) => stage[Head(targets)] # "closed"]_vars

\* The recording flag of c as a reader of the map sees it.
Recording(c) == c \in DOMAIN is_recording /\ is_recording[c]

\* C38: in every reachable state a session's recording flag is true exactly
\* when its audio buffer holds a fragment not yet drained, in the first
\* utterance and in every later one.
C38_RecordingTracksBuffering ==
    \A c \in Conns : Recording(c) <=> Buffered(c) # <<>>

\* The step is an operation of the session of c.
StepOf(c) == handled'[c] # handled[c] \/ lifecycle'[c] # lifecycle[c]

\* C39: the recording-flag map and the buffer-start-time map have exactly
\* the keys of the audio-buffer map, the header map's keys are among them,
\* every key belongs to a connection in the registry, and the operations of
\* one session never create, change or delete another connection's entries.
C39_MapsConsistent ==
    /\ [](/\ DOMAIN is_recording = DOMAIN audio_buffer
          /\ DOMAIN buffer_start_time = DOMAIN audio_buffer
          /\ DOMAIN session_headers \subseteq DOMAIN audio_buffer
          /\ DOMAIN audio_buffer \subseteq active_connections)
    /\ [][\A c \in Conns :
            Held(c)' # Held(c) =>
                /\ StepOf(c)
                /\ \A d \in Conns \ {c} : Held(d)' = Held(d)]_vars

\* Two sessions side by side: one has drained its buffer and kept its
\* header, the other is buffering.
C39_Witness ==
    /\ DOMAIN audio_buffer = {"ws1", "ws2"}
    /\ DOMAIN session_headers = {"ws1"}
    /\ audio_buffer["ws1"] = <<>>
    /\ is_recording["ws1"] = FALSE
    /\ audio_buffer["ws2"] = <<"a">>
    /\ is_recording["ws2"] = TRUE

\* C36: for the same utterance and the same behaviour of the planner and of
\* the Generation engine, the voice path and the text path make the same
\* calls in the same order and send the same response, the special commands
\* and a failing conversational call included.
C36_SamePipelineOnBothPaths == qpc = "both" => voicePath = textPath

\* The data of the audio chunks of a stream, in order.
RECURSIVE AudioOf(_)
AudioOf(chunks) ==
    IF chunks = <<>> THEN ""
    ELSE AudioOf(SubSeq(chunks, 1, Len(chunks) - 1))
            \o (IF chunks[Len(chunks)].type = "audio" THEN chunks[Len(chunks)].data ELSE "")

\* The blocks of a stream put one after another.
RECURSIVE Played(_)
Played(blocks) ==
    IF blocks = <<>> THEN "" ELSE Played(SubSeq(blocks, 1, Len(blocks) - 1)) \o blocks[Len(blocks)]

\* C40: stream_text loses and reorders nothing: once the generator has
\* ended, the blocks it yielded, put together, are the data of all audio
\* chunks the engine produced, in order; every block but the last holds 16
\* audio chunks (the last between 1 and 16); a blank text yields nothing; an
\* engine failure ends the stream.
C40_StreamLosesNothing ==
    spc = "done" =>
        /\ Played(yielded) = AudioOf(engineChunks)
        /\ \A k \in DOMAIN yielded :
              /\ k < Len(yielded) => Len(yielded[k]) = 16
              /\ Len(yielded[k]) \in 1..16
        /\ BlankText(tts_text) => yielded = <<>> /\ engineChunks = <<>>

====
